---- MODULE Spec2Model ----
(***************************************************************************)
(* Model of packages/three-3mf-exporter/src/index.ts: exportTo3MF walks a  *)
(* three.js scene, builds the component / material / build-item tables,    *)
(* centres the build on the print bed and emits the three documents of a   *)
(* 3MF package.                                                            *)
(*                                                                         *)
(* Numbers.  Lengths (vertex coordinates, matrix translations, the shift)  *)
(* are integers counted in ticks of 1/Tick of the last digit toFixed(5)    *)
(* prints, so toFixed rounds.  Input lengths are even numbers of ticks, so *)
(* the halving of the centering logic is exact.  The linear entries of a   *)
(* matrix are plain integers (signed permutation matrices: quarter turns   *)
(* and translations), which makes Matrix4.invert exact.                    *)
(***************************************************************************)
EXTENDS Integers, Sequences, FiniteSets, TLC

\* ------------------------------------------------------------------ bounds
MaxFreeNodes == 3    \* nodes of a scene of the free family
MaxNodes == 5        \* nodes of a scene of the tree family
MaxColourNodes == 3  \* nodes of a scene of the colour family
MaxPoseNodes == 3    \* nodes of a scene of the transform family
MaxBufferLength == 7 \* entries of the buffer the triangle loop of a geometry runs over
MaxShapes == 3       \* shapes of an SVG the user mounts
MaxPendingFetches == 2 \* fetches of the default SVG in flight at once
MaxEditShapes == 2   \* shapes of the SVG whose numbers are edited
MaxPaths == 2        \* path elements with a d attribute in an SVG document
MaxEdits == 1        \* numeric edits after the shapes and the selection are set up

\* ------------------------------------------------------ program constants
FractionDigits == 5      \* toFixed(5)
printableWidth == 256    \* defaultPrintConfig.printableWidth (mm)
printableDepth == 256    \* defaultPrintConfig.printableDepth (mm)
printableHeight == 256   \* defaultPrintConfig.printableHeight (mm)
defaultDepth == 2        \* SvgTo3D: defaultDepth (mm)

\* ticks per unit of the last printed digit, and ticks per millimetre
Tick == 2 * 10
TicksPerMm == Tick * 10 ^ FractionDigits

\* ------------------------------------------------------------ sequences
RECURSIVE SeqSum(_)
SeqSum(s) == IF s = <<>> THEN 0 ELSE Head(s) + SeqSum(Tail(s))

RECURSIVE Flatten(_)
Flatten(ss) == IF ss = <<>> THEN <<>> ELSE Head(ss) \o Flatten(Tail(ss))

Range(s) == {s[k] : k \in 1..Len(s)}

RECURSIVE SetToSeq(_)
\* the elements of a finite set of integers in ascending order
SetToSeq(S) ==
    IF S = {} THEN <<>>
    ELSE LET m == CHOOSE x \in S : \A y \in S : x <= y
         IN  <<m>> \o SetToSeq(S \ {m})

Min2(a, b) == IF a < b THEN a ELSE b
Max2(a, b) == IF a > b THEN a ELSE b

\* ------------------------------------------------ three.js Matrix4, Vector3
\* A Matrix4 is its `elements` array (column-major); E(m, k) is elements[k].
E(m, k) == m[k + 1]

Identity == <<1, 0, 0, 0,  0, 1, 0, 0,  0, 0, 1, 0,  0, 0, 0, 1>>

\* Matrix4.multiplyMatrices(a, b): a * b
MultiplyMatrices(a, b) ==
    [i \in 1..16 |->
        LET r == (i - 1) % 4
            c == (i - 1) \div 4
        IN  E(a, r) * E(b, 4 * c) + E(a, r + 4) * E(b, 4 * c + 1)
            + E(a, r + 8) * E(b, 4 * c + 2) + E(a, r + 12) * E(b, 4 * c + 3)]

\* this.premultiply(m): m * this
Premultiply(this, m) == MultiplyMatrices(m, this)

\* determinant of the linear 3x3 part
Det3(m) ==
      E(m, 0) * (E(m, 5) * E(m, 10) - E(m, 9) * E(m, 6))
    - E(m, 4) * (E(m, 1) * E(m, 10) - E(m, 9) * E(m, 2))
    + E(m, 8) * (E(m, 1) * E(m, 6) - E(m, 5) * E(m, 2))

\* Matrix4.invert() of an affine matrix whose linear part has determinant
\* 1 or -1: the adjugate of the linear part times 1/det, and the translation
\* -L^-1 t.
Invert(m) ==
    LET d == Det3(m)
        a00 == d * (E(m, 5) * E(m, 10) - E(m, 9) * E(m, 6))
        a10 == d * (E(m, 9) * E(m, 2) - E(m, 1) * E(m, 10))
        a20 == d * (E(m, 1) * E(m, 6) - E(m, 5) * E(m, 2))
        a01 == d * (E(m, 8) * E(m, 6) - E(m, 4) * E(m, 10))
        a11 == d * (E(m, 0) * E(m, 10) - E(m, 8) * E(m, 2))
        a21 == d * (E(m, 4) * E(m, 2) - E(m, 0) * E(m, 6))
        a02 == d * (E(m, 4) * E(m, 9) - E(m, 8) * E(m, 5))
        a12 == d * (E(m, 8) * E(m, 1) - E(m, 0) * E(m, 9))
        a22 == d * (E(m, 0) * E(m, 5) - E(m, 4) * E(m, 1))
        tx == E(m, 12)
        ty == E(m, 13)
        tz == E(m, 14)
    IN  <<a00, a10, a20, 0,
          a01, a11, a21, 0,
          a02, a12, a22, 0,
          0 - (a00 * tx + a01 * ty + a02 * tz),
          0 - (a10 * tx + a11 * ty + a12 * tz),
          0 - (a20 * tx + a21 * ty + a22 * tz), 1>>

\* Vector3.applyMatrix4(m) for an affine m (w = 1)
ApplyMatrix4(v, m) ==
    << E(m, 0) * v[1] + E(m, 4) * v[2] + E(m, 8) * v[3] + E(m, 12),
       E(m, 1) * v[1] + E(m, 5) * v[2] + E(m, 9) * v[3] + E(m, 13),
       E(m, 2) * v[1] + E(m, 6) * v[2] + E(m, 10) * v[3] + E(m, 14) >>

\* Number.prototype.toFixed(5) of a length in ticks: the nearest multiple of
\* the last digit, halves away from zero; the result counts last digits.
ToFixed(x) ==
    IF x >= 0 THEN (2 * x + Tick) \div (2 * Tick)
    ELSE 0 - ((2 * (0 - x) + Tick) \div (2 * Tick))

\* toFixed(5) of a linear matrix entry (a plain number)
ToFixedLinear(e) == e * 10 ^ FractionDigits

\* ------------------------------------------------------------ input scene
\* A scene is a tree of Object3D nodes 1..n; node 1 is the object handed to
\* exportTo3MF, parent[i] < i, and node.children lists the children in
\* ascending order.  parentWorld is the stored matrixWorld of the parent of
\* node 1 (Identity when node 1 has no parent).
GroupTypes == {"Group", "Object3D", "Scene"}

ParentVectors(n) ==
    {p \in [1..n -> 0..n] : p[1] = 0 /\ \A i \in 2..n : p[i] \in 1..(i - 1)}

HasChild(n, p, i) == \E j \in 1..n : p[j] = i

\* colours: a channel counts 1/510ths, so that two different colours can
\* print as the same hex string
Red == <<510, 0, 0>>
NearRed == <<509, 0, 0>>
Green == <<0, 510, 0>>
ExplicitGray == <<256, 256, 256>>

NoMaterial == [kind |-> "none", mats |-> <<>>]
SingleMaterial(c) == [kind |-> "single", mats |-> <<[hasColor |-> TRUE, color |-> c]>>]
ColourlessMaterial ==
    [kind |-> "single", mats |-> <<[hasColor |-> FALSE, color |-> <<0, 0, 0>>]>>]
ArrayMaterial(cs) ==
    [kind |-> "array", mats |-> [k \in 1..Len(cs) |-> [hasColor |-> TRUE, color |-> cs[k]]]]

\* the materials of the colour family
MaterialChoices ==
    { NoMaterial, ColourlessMaterial, SingleMaterial(ExplicitGray), SingleMaterial(Red),
      SingleMaterial(NearRed) }

\* the materials of the name family
NamedMaterialChoices ==
    { SingleMaterial(Red), SingleMaterial(NearRed), ArrayMaterial(<<Green, Red>>),
      ArrayMaterial(<<>>) }

\* geometry: a position buffer and an optional index buffer
PointA == <<0, 0, 0>>
PointB == <<TicksPerMm, 0, 14>>
PointC == <<0, 2 * TicksPerMm, 6>>
GeomPoints == {PointA, PointB}

NonIndexed(pos) == [position |-> pos, indexed |-> FALSE, index |-> <<>>]
Indexed(pos, idx) == [position |-> pos, indexed |-> TRUE, index |-> idx]
NoGeometry == NonIndexed(<<>>)
DefaultGeometry == NonIndexed(<<PointA, PointB, PointC>>)

\* poses: the matrix composed from position / quaternion / scale
Translation(x, y, z) == <<1, 0, 0, 0,  0, 1, 0, 0,  0, 0, 1, 0,  x, y, z, 1>>
QuarterTurnZ(x, y, z) == <<0, 1, 0, 0,  -1, 0, 0, 0,  0, 0, 1, 0,  x, y, z, 1>>
Poses == { Identity, Translation(4 * TicksPerMm, 0, 6), QuarterTurnZ(0, 2 * TicksPerMm, 14) }
ParentWorlds == { Identity, Translation(0, 6 * TicksPerMm, 2 * TicksPerMm) }

NoName == <<>>
NodeName(i) == <<"node", i>>

\* printJobConfig: the fields the caller supplies
NoConfig == <<>>

MkSceneWith(n, p, ty, nm, po, ma, ge, pw, cfg) ==
    [n |-> n, parent |-> p, type |-> ty, name |-> nm, pose |-> po,
     material |-> ma, geometry |-> ge, parentWorld |-> pw, config |-> cfg]

MkScene(n, p, ty, nm, po, ma, ge, pw) == MkSceneWith(n, p, ty, nm, po, ma, ge, pw, NoConfig)

NodeTypes == {"Scene", "Group", "Object3D", "Mesh", "Line"}

MeshMaterials(n, ty) == [i \in 1..n |-> IF ty[i] = "Mesh" THEN SingleMaterial(Red) ELSE NoMaterial]
MeshGeometries(n, ty) == [i \in 1..n |-> IF ty[i] = "Mesh" THEN DefaultGeometry ELSE NoGeometry]

\* free family: small trees, the root of every type and every other node a
\* Scene, a Group, a Mesh or a Line, whether it has children or not
FreeScenes ==
    UNION { { MkScene(n, p, ty, [i \in 1..n |-> NoName], [i \in 1..n |-> Identity],
                      MeshMaterials(n, ty), MeshGeometries(n, ty), Identity)
              : p \in ParentVectors(n),
                ty \in {t \in [1..n -> NodeTypes] : \A i \in 2..n : t[i] # "Object3D"} }
            : n \in 1..MaxFreeNodes }

\* tree family: larger trees whose nodes with children are groups (the root a
\* Scene or a Group) and whose leaves are meshes or empty groups
TreeScenesOf(n, p) ==
    { MkScene(n, p, ty, [i \in 1..n |-> NoName], [i \in 1..n |-> Identity],
              MeshMaterials(n, ty), MeshGeometries(n, ty), Identity)
      : ty \in {t \in [1..n -> {"Scene", "Group", "Mesh"}] :
                  /\ t[1] \in {"Scene", "Group"}
                  /\ \A i \in 2..n : IF HasChild(n, p, i) THEN t[i] = "Group"
                                     ELSE t[i] \in {"Mesh", "Group"}} }

TreeScenes ==
    UNION { UNION { TreeScenesOf(n, p) : p \in ParentVectors(n) } : n \in 2..MaxNodes }

StructureScenes == FreeScenes \cup TreeScenes

\* the node types of the other families follow from the shape
ShapeTypes(n, p, root, inner) ==
    [i \in 1..n |-> IF i = 1 THEN root
                    ELSE IF HasChild(n, p, i) THEN inner ELSE "Mesh"]

\* colour family: a Scene whose leaves are meshes with every choice of material
ColourScenesOf(n, p) ==
    LET ty == ShapeTypes(n, p, "Scene", "Object3D")
    IN  { MkScene(n, p, ty, [i \in 1..n |-> NoName], [i \in 1..n |-> Identity], ma,
                  MeshGeometries(n, ty), Identity)
          : ma \in {m \in [1..n -> MaterialChoices] :
                      \A i \in 1..n : ty[i] # "Mesh" => m[i] = NoMaterial} }

ColourScenes ==
    UNION { UNION { ColourScenesOf(n, p) : p \in ParentVectors(n) } : n \in 2..MaxColourNodes }

\* nested colour family: three meshes at two depths, each red or nearly red
NestedColourScenes ==
    { LET ty == <<"Scene", "Mesh", "Group", "Mesh", "Mesh">>
      IN  MkScene(5, <<0, 1, 1, 3, 3>>, ty, [i \in 1..5 |-> NoName],
                  [i \in 1..5 |-> Identity], <<NoMaterial, m2, NoMaterial, m4, m5>>,
                  MeshGeometries(5, ty), Identity)
      : m2 \in {SingleMaterial(Red), SingleMaterial(NearRed)},
        m4 \in {SingleMaterial(Red), SingleMaterial(NearRed)},
        m5 \in {SingleMaterial(Red), SingleMaterial(NearRed)} }

\* name family: two meshes below a Scene or a Group, named or not, with
\* single and array materials
NameScenes ==
    { LET ty == <<root, "Mesh", "Mesh">>
      IN  MkScene(3, <<0, 1, 1>>, ty, [i \in 1..3 |-> IF nm[i] THEN NodeName(i) ELSE NoName],
                  [i \in 1..3 |-> Identity], <<NoMaterial, m2, m3>>,
                  <<NoGeometry, DefaultGeometry, DefaultGeometry>>, Identity)
      : root \in {"Scene", "Group"}, nm \in [1..3 -> BOOLEAN],
        m2 \in NamedMaterialChoices, m3 \in NamedMaterialChoices }

\* transform family: every node posed, the root possibly below a posed
\* parent; a lone root is a Mesh, a root with children a Scene or a Group
PoseScenesOf(n, p) ==
    { LET ty == ShapeTypes(n, p, root, "Scene")
      IN  MkScene(n, p, ty, [i \in 1..n |-> NoName], po,
                  MeshMaterials(n, ty), MeshGeometries(n, ty), pw)
      : root \in IF n = 1 THEN {"Mesh"} ELSE {"Scene", "Group"},
        po \in {q \in [1..n -> Poses] : \A i \in 2..n : q[i] # Identity},
        pw \in ParentWorlds }

PoseScenes ==
    UNION { UNION { PoseScenesOf(n, p) : p \in ParentVectors(n) } : n \in 1..MaxPoseNodes }

\* geometry family: one mesh whose position buffer (or index buffer) holds
\* any number of entries, a multiple of 3 or not, over repeated positions
Geometries ==
    UNION { { NonIndexed(pos) : pos \in [1..len -> GeomPoints] }
            \cup { Indexed(pos, idx) : pos \in {<<PointA, PointB>>, <<PointB, PointB>>},
                                       idx \in [1..len -> 0..1] }
            : len \in 0..MaxBufferLength }

GeometryScenes ==
    { MkScene(1, <<0>>, <<"Mesh">>, <<NoName>>, <<Identity>>, <<SingleMaterial(Red)>>, <<g>>, Identity)
      : g \in Geometries }

\* configuration family: one mesh, several caller configurations
ConfigChoices ==
    { [printableWidth |-> 200, printableDepth |-> 180],
      [compression |-> "none"],
      [compression |-> "standard", filament |-> "Generic PETG"],
      [metadata |-> [Copyright |-> "someone"]] }

ConfigScenes ==
    { MkSceneWith(1, <<0>>, <<"Mesh">>, <<NoName>>, <<po>>, <<SingleMaterial(Red)>>,
                  <<DefaultGeometry>>, Identity, cfg)
      : po \in Poses, cfg \in ConfigChoices }

Scenes ==
    StructureScenes \cup ConfigScenes \cup ColourScenes \cup NestedColourScenes
        \cup NameScenes \cup PoseScenes \cup GeometryScenes

\* =================================================================== state
VARIABLES
    scene,             \* the object handed to exportTo3MF (read only)
    matrix,            \* node.matrix of every node
    matrixWorld,       \* node.matrixWorld of every node
    components,        \* components: ComponentInfo[]
    materials,         \* materials: MaterialInfo[]
    buildItems,        \* buildItems: BuildItem[]
    allVerticesWorld,  \* allVerticesWorld: Vector3[]
    origin,            \* history: the node each component was made from
    stack,             \* the active processNode calls on group nodes
    cur,               \* the node processNode is being called on
    ret,               \* the value the last processNode call returned
    rootIdx,           \* position of rootChildren.forEach
    pc,                \* position in exportTo3MF
    shift,             \* shift
    mainModelXml,      \* result of createMainModelXML
    modelSettingsXml,  \* result of createModelSettingsXML
    projectSettingsConfig, \* result of createProjectSettingsConfig
    zip,               \* the entries written to the JSZip archive, in order
    blob,              \* the generated archive
    first,             \* history: what an earlier export of the same scene produced
    svgShapes,            \* SvgTo3D: svgShapes, each shape its startZ and depth in thousandths of a mm
    selectedShapeIndices, \* SvgTo3D: selectedShapeIndices
    lastSelectedIndex,    \* SvgTo3D: lastSelectedIndex, <<>> for null
    isDefaultSvg,         \* SvgTo3D: isDefaultSvg
    isExporting,          \* SvgTo3D: isExporting
    pendingFetches,       \* SvgTo3D: fetches of loadDefaultSvg that have not answered yet
    lastEvent,            \* history: the handler that ran last, with its arguments
    edits,                \* history: how many numeric edits the handlers have made
    svgMarkup,         \* normalizePathDirections: its argument
    hasDomParser,      \* useSvgLoader: hasDomParser
    hasXmlSerializer,  \* useSvgLoader: hasXmlSerializer
    svgDoc,            \* normalizePathDirections: the d attribute of every path[d] of doc
    modified,          \* normalizePathDirections: modified
    pathIdx,           \* position of paths.forEach
    at,                \* position in normalizePathDirections
    returned           \* what normalizePathDirections returned

vars == <<scene, matrix, matrixWorld, components, materials, buildItems, allVerticesWorld,
          origin, stack, cur, ret, rootIdx, pc, shift, mainModelXml, modelSettingsXml,
          projectSettingsConfig, zip, blob, first, svgShapes, selectedShapeIndices,
          lastSelectedIndex, isDefaultSvg, isExporting, pendingFetches, lastEvent, edits,
          svgMarkup, hasDomParser, hasXmlSerializer, svgDoc, modified, pathIdx, at, returned>>

\* the state of the exporter and the state of the SvgTo3D component
exporterVars == <<scene, matrix, matrixWorld, components, materials, buildItems, allVerticesWorld,
                  origin, stack, cur, ret, rootIdx, pc, shift, mainModelXml, modelSettingsXml,
                  projectSettingsConfig, zip, blob, first>>
componentVars == <<svgShapes, selectedShapeIndices, lastSelectedIndex, isDefaultSvg, isExporting,
                   pendingFetches, lastEvent, edits>>

normalizeVars == <<svgMarkup, hasDomParser, hasXmlSerializer, svgDoc, modified, pathIdx, at, returned>>

\* node.children
Children(i) == SetToSeq({j \in 1..scene.n : scene.parent[j] = i})

\* faulty variant: a Scene is handled like any other root, as one top-level node
RootChildrenNeverScene == <<1>>

\* faulty variant: every root is handled like a Scene, its children the top-level nodes
RootChildrenAlwaysChildren == Children(1)

\* rootChildren (line 226)
RootChildren == IF scene.type[1] = "Scene" THEN Children(1) ELSE <<1>>

RECURSIVE InSubtree(_, _)
InSubtree(i, x) == i = x \/ (i > x /\ InSubtree(scene.parent[i], x))

\* Object3D.updateMatrixWorld(true) on node x: x and every descendant
\* recompose their matrix and take matrixWorld = parent.matrixWorld * matrix
\* (the parent of x is not updated)
RECURSIVE UpdateFrom(_, _, _, _)
UpdateFrom(i, x, m, mw) ==
    IF i > scene.n THEN [matrix |-> m, matrixWorld |-> mw]
    ELSE IF InSubtree(i, x)
         THEN LET pw == IF scene.parent[i] = 0 THEN scene.parentWorld
                        ELSE mw[scene.parent[i]]
              IN  UpdateFrom(i + 1, x, [m EXCEPT ![i] = scene.pose[i]],
                             [mw EXCEPT ![i] = MultiplyMatrices(pw, scene.pose[i])])
         ELSE UpdateFrom(i + 1, x, m, mw)

UpdateMatrixWorld(x) == UpdateFrom(x, x, matrix, matrixWorld)

\* ---------------------------------------------------------- processMesh
\* the colour a material resolves to (lines 109-118)
DefaultGray == <<256, 256, 256>>
ResolveColor(material) ==
    LET mat == IF material.mats = <<>> THEN <<>> ELSE <<material.mats[1]>>
    IN  IF mat # <<>> /\ mat[1].hasColor THEN mat[1].color ELSE DefaultGray

\* Color.getHexString(): each channel rounded to a byte
HexString(color) == <<(color[1] + 1) \div 2, (color[2] + 1) \div 2, (color[3] + 1) \div 2>>

\* faulty variant: the colours are compared by their packed hex value
ExistingMaterialByHex(mats, color) ==
    LET ks == {k \in 1..Len(mats) : HexString(mats[k].color) = HexString(color)}
    IN  IF ks = {} THEN <<>> ELSE <<mats[CHOOSE k \in ks : \A j \in ks : k <= j]>>

\* materials.find(m => same r, g, b) (lines 121-123): <<>> when there is none
ExistingMaterial(mats, color) ==
    LET ks == {k \in 1..Len(mats) : mats[k].color = color}
    IN  IF ks = {} THEN <<>> ELSE <<mats[CHOOSE k \in ks : \A j \in ks : k <= j]>>

\* faulty variant: the extruder of a new material is the 0-based position
NewMaterialExtruderZeroBased(mats, color, meshName) ==
    [id |-> Len(mats) + 1,
     color |-> color,
     name |-> IF meshName # NoName THEN meshName \o <<"_material">>
              ELSE <<"material_", Len(mats)>>,
     extruder |-> Len(mats)]

\* the MaterialInfo of a new colour (lines 128-134)
NewMaterial(mats, color, meshName) ==
    [id |-> Len(mats) + 1,
     color |-> color,
     name |-> IF meshName # NoName THEN meshName \o <<"_material">>
              ELSE <<"material_", Len(mats)>>,
     extruder |-> Len(mats) + 1]

\* lines 107-137: the material list after the mesh, and the mesh's
\* materialInfo (<<>> is null)
ResolveMaterial(mats, material, meshName) ==
    IF material.kind = "none" THEN [materials |-> mats, materialInfo |-> <<>>]
    ELSE LET color == ResolveColor(material)
             existing == ExistingMaterial(mats, color)
         IN  IF existing # <<>> THEN [materials |-> mats, materialInfo |-> existing]
             ELSE LET info == NewMaterial(mats, color, meshName)
                  IN  [materials |-> Append(mats, info), materialInfo |-> <<info>>]

\* faulty variant: the id is the table length, without the + 1
NextComponentIdZeroBased(comps) == Len(comps)

\* components.length + 1 (lines 139 and 209)
NextComponentId(comps) == Len(comps) + 1

\* BufferAttribute.getX(i) of the index buffer; -1 stands for undefined
IndexAt(geometry, i) ==
    IF i < Len(geometry.index) THEN geometry.index[i + 1] ELSE -1

\* Vector3.fromBufferAttribute(positionAttr, vertexIndex); <<>> is the vertex
\* of three undefined coordinates read outside the buffer
UndefinedVertex == <<>>
PositionAt(geometry, vertexIndex) ==
    IF vertexIndex >= 0 /\ vertexIndex < Len(geometry.position)
    THEN geometry.position[vertexIndex + 1] ELSE UndefinedVertex

\* faulty variant: the vertex is taken to world space before it is stored
ProcessVertexInWorldSpace(acc, geometry, vertexIndex) ==
    LET local == PositionAt(geometry, vertexIndex)
        vertexKey == IF local = UndefinedVertex THEN local
                     ELSE ApplyMatrix4(local, matrixWorld[cur])
    IN  IF vertexKey \in DOMAIN acc.vertexMap
        THEN [acc EXCEPT !.index = acc.vertexMap[vertexKey]]
        ELSE [vertices |-> Append(acc.vertices, vertexKey),
              vertexMap |-> [k \in DOMAIN acc.vertexMap \cup {vertexKey} |->
                                IF k = vertexKey THEN Len(acc.vertices)
                                ELSE acc.vertexMap[k]],
              triangles |-> acc.triangles,
              index |-> Len(acc.vertices)]

\* faulty variant: the vertex map is never consulted
ProcessVertexWithoutMap(acc, geometry, vertexIndex) ==
    [vertices |-> Append(acc.vertices, PositionAt(geometry, vertexIndex)),
     vertexMap |-> acc.vertexMap,
     triangles |-> acc.triangles,
     index |-> Len(acc.vertices)]

\* processVertex (lines 155-166) on the accumulated [vertices, vertexMap]:
\* the vertex key is the coordinate triple; `index` is the value returned
ProcessVertex(acc, geometry, vertexIndex) ==
    LET vertexKey == PositionAt(geometry, vertexIndex)
    IN  IF vertexKey \in DOMAIN acc.vertexMap
        THEN [acc EXCEPT !.index = acc.vertexMap[vertexKey]]
        ELSE [vertices |-> Append(acc.vertices, vertexKey),
              vertexMap |-> [k \in DOMAIN acc.vertexMap \cup {vertexKey} |->
                                IF k = vertexKey THEN Len(acc.vertices)
                                ELSE acc.vertexMap[k]],
              triangles |-> acc.triangles,
              index |-> Len(acc.vertices)]

\* the corner of the triangle starting at buffer entry i (lines 172-174, 180-182)
Corner(geometry, i) == IF geometry.indexed THEN IndexAt(geometry, i) ELSE i

\* the number of entries the triangle loop runs over (lines 170, 178)
LoopCount(geometry) ==
    IF geometry.indexed THEN Len(geometry.index) ELSE Len(geometry.position)

\* the triangle loops (lines 169-185), from buffer entry i on
RECURSIVE ProcessTriangles(_, _, _)
ProcessTriangles(acc, geometry, i) ==
    IF i >= LoopCount(geometry) THEN acc
    ELSE LET a1 == ProcessVertex(acc, geometry, Corner(geometry, i))
             a2 == ProcessVertex(a1, geometry, Corner(geometry, i + 1))
             a3 == ProcessVertex(a2, geometry, Corner(geometry, i + 2))
         IN  ProcessTriangles(
                 [a3 EXCEPT !.triangles =
                     Append(@, [v1 |-> a1.index, v2 |-> a2.index, v3 |-> a3.index])],
                 geometry, i + 3)

\* the mesh component (lines 139-185)
MeshComponent(comps, node, materialInfo) ==
    LET componentId == NextComponentId(comps)
        g == ProcessTriangles([vertices |-> <<>>, vertexMap |-> <<>>, triangles |-> <<>>,
                               index |-> 0], scene.geometry[node], 0)
    IN  [id |-> componentId,
         type |-> "mesh",
         vertices |-> g.vertices,
         triangles |-> g.triangles,
         material |-> materialInfo,
         name |-> IF scene.name[node] # NoName THEN scene.name[node]
                  ELSE <<"Mesh-", componentId>>,
         subComponents |-> <<>>]

\* lines 100-189
ProcessMesh ==
    /\ pc = "call"
    /\ scene.type[cur] = "Mesh"
    /\ LET u == UpdateMatrixWorld(cur)
           r == ResolveMaterial(materials, scene.material[cur], scene.name[cur])
           component == MeshComponent(components, cur, r.materialInfo)
       IN  /\ matrix' = u.matrix
           /\ matrixWorld' = u.matrixWorld
           /\ materials' = r.materials
           /\ components' = Append(components, component)
           /\ origin' = Append(origin, cur)
           /\ ret' = component.id
    /\ pc' = "ret"
    /\ UNCHANGED <<normalizeVars, componentVars, first, scene, buildItems, allVerticesWorld, stack, cur, rootIdx, shift,
                   mainModelXml, modelSettingsXml, projectSettingsConfig, zip, blob>>

\* ---------------------------------------------------------- processNode
\* lines 195-197: a group node starts its children loop
EnterGroup ==
    /\ pc = "call"
    /\ scene.type[cur] \in {"Group", "Object3D", "Scene"}
    /\ LET u == UpdateMatrixWorld(cur)
       IN  /\ matrix' = u.matrix
           /\ matrixWorld' = u.matrixWorld
    /\ stack' = Append(stack, [node |-> cur, i |-> 1, subComponents |-> <<>>])
    /\ pc' = "loop"
    /\ UNCHANGED <<normalizeVars, componentVars, first, scene, components, materials, buildItems, allVerticesWorld, origin, cur,
                   ret, rootIdx, shift, mainModelXml, modelSettingsXml,
                   projectSettingsConfig, zip, blob>>

\* line 220: a node of any other type
SkipNode ==
    /\ pc = "call"
    /\ scene.type[cur] \notin {"Mesh", "Group", "Object3D", "Scene"}
    /\ ret' = -1
    /\ pc' = "ret"
    /\ UNCHANGED <<normalizeVars, componentVars, first, scene, matrix, matrixWorld, components, materials, buildItems,
                   allVerticesWorld, origin, stack, cur, rootIdx, shift, mainModelXml,
                   modelSettingsXml, projectSettingsConfig, zip, blob>>

Top == stack[Len(stack)]

\* faulty variant: the children are visited last to first
ChildAtReversed(node, i) == Children(node)[Len(Children(node)) + 1 - i]

\* the child the forEach of line 199 visits at position i
ChildAt(node, i) == Children(node)[i]

\* lines 199-200: the loop calls processNode on the next child
NextChild ==
    /\ pc = "loop"
    /\ Top.i <= Len(Children(Top.node))
    /\ cur' = ChildAt(Top.node, Top.i)
    /\ pc' = "call"
    /\ UNCHANGED <<normalizeVars, componentVars, first, scene, matrix, matrixWorld, components, materials, buildItems,
                   allVerticesWorld, origin, stack, ret, rootIdx, shift, mainModelXml,
                   modelSettingsXml, projectSettingsConfig, zip, blob>>

\* line 203: child.matrixWorld premultiplied by the inverse of node.matrixWorld
RelMatrix(node, child) == Premultiply(matrixWorld[child], Invert(matrixWorld[node]))

\* lines 201-205: the sub-component list after the child returned subId
WithSubComponent(subComponents, node, child, subId) ==
    IF subId # -1
    THEN Append(subComponents, [objectId |-> subId, transform |-> RelMatrix(node, child)])
    ELSE subComponents

\* lines 200-205: the call on a child returned
AddSubComponent ==
    /\ pc = "ret"
    /\ stack # <<>>
    /\ stack' = [stack EXCEPT ![Len(stack)] =
                    [node |-> Top.node, i |-> Top.i + 1,
                     subComponents |-> WithSubComponent(Top.subComponents, Top.node, cur, ret)]]
    /\ pc' = "loop"
    /\ UNCHANGED <<normalizeVars, componentVars, first, scene, matrix, matrixWorld, components, materials, buildItems,
                   allVerticesWorld, origin, cur, ret, rootIdx, shift, mainModelXml,
                   modelSettingsXml, projectSettingsConfig, zip, blob>>

\* faulty variant: the assembly takes the id of the component pushed last
AssemblyComponentStaleId(comps, node, subComponents) ==
    [id |-> Len(comps),
     type |-> "assembly",
     vertices |-> <<>>,
     triangles |-> <<>>,
     material |-> <<>>,
     name |-> IF scene.name[node] # NoName THEN scene.name[node]
              ELSE <<"Group-", Len(comps)>>,
     subComponents |-> subComponents]

\* the assembly component (lines 209-216)
AssemblyComponent(comps, node, subComponents) ==
    LET assemblyId == NextComponentId(comps)
    IN  [id |-> assemblyId,
         type |-> "assembly",
         vertices |-> <<>>,
         triangles |-> <<>>,
         material |-> <<>>,
         name |-> IF scene.name[node] # NoName THEN scene.name[node]
                  ELSE <<"Group-", assemblyId>>,
         subComponents |-> subComponents]

\* faulty variant: a group makes an assembly whether it has sub-components or not
MakesAssemblyAlways(subComponents) == TRUE

\* line 208
MakesAssembly(subComponents) == Len(subComponents) > 0

\* lines 208-220: the children loop is over
FinishGroup ==
    /\ pc = "loop"
    /\ Top.i > Len(Children(Top.node))
    /\ IF MakesAssembly(Top.subComponents)
       THEN LET assembly == AssemblyComponent(components, Top.node, Top.subComponents)
            IN  /\ components' = Append(components, assembly)
                /\ origin' = Append(origin, Top.node)
                /\ ret' = assembly.id
       ELSE /\ ret' = -1
            /\ UNCHANGED <<components, origin>>
    /\ cur' = Top.node
    /\ stack' = SubSeq(stack, 1, Len(stack) - 1)
    /\ pc' = "ret"
    /\ UNCHANGED <<normalizeVars, componentVars, first, scene, matrix, matrixWorld, materials, buildItems, allVerticesWorld,
                   rootIdx, shift, mainModelXml, modelSettingsXml, projectSettingsConfig,
                   zip, blob>>

\* ------------------------------------------------- the rootChildren loop
\* lines 229-230: the loop calls processNode on the next root child
RootNext ==
    /\ pc = "root"
    /\ rootIdx <= Len(RootChildren)
    /\ cur' = RootChildren[rootIdx]
    /\ pc' = "call"
    /\ UNCHANGED <<normalizeVars, componentVars, first, scene, matrix, matrixWorld, components, materials, buildItems,
                   allVerticesWorld, origin, stack, ret, rootIdx, shift, mainModelXml,
                   modelSettingsXml, projectSettingsConfig, zip, blob>>

\* components.find(c => c.id === id): <<>> when there is none (undefined)
FindComponent(comps, id) ==
    LET ks == {k \in 1..Len(comps) : comps[k].id = id}
    IN  IF ks = {} THEN <<>> ELSE <<comps[CHOOSE k \in ks : \A j \in ks : k <= j]>>

\* every lookup getVerts / collect makes below component id finds its
\* component (otherwise the `!` of lines 235, 239, 354, 361 hides a TypeError)
RECURSIVE Resolvable(_, _, _)
Resolvable(comps, id, fuel) ==
    /\ fuel > 0
    /\ FindComponent(comps, id) # <<>>
    /\ LET c == FindComponent(comps, id)[1]
       IN  \A k \in 1..Len(c.subComponents) :
               Resolvable(comps, c.subComponents[k].objectId, fuel - 1)

\* new Vector3(v.x, v.y, v.z) (line 243): an undefined coordinate takes the
\* constructor's default 0
NewVector3(v) == IF v = UndefinedVertex THEN <<0, 0, 0>> ELSE v

\* getVerts (lines 236-244)
RECURSIVE GetVerts(_, _)
GetVerts(comps, c) ==
    IF c.type = "assembly"
    THEN Flatten([k \in 1..Len(c.subComponents) |->
            LET sc == c.subComponents[k]
                subComp == FindComponent(comps, sc.objectId)[1]
                vs == GetVerts(comps, subComp)
            IN  [j \in 1..Len(vs) |-> ApplyMatrix4(vs[j], sc.transform)]])
    ELSE [j \in 1..Len(c.vertices) |-> NewVector3(c.vertices[j])]

\* child.matrix after child.updateMatrix() (lines 232-233)
ItemMatrix(child) == scene.pose[child]

\* lines 246-249: the world vertices of the item
ItemVerticesWorld(comps, childId, itemMatrix) ==
    LET vs == GetVerts(comps, FindComponent(comps, childId)[1])
    IN  [j \in 1..Len(vs) |-> ApplyMatrix4(vs[j], itemMatrix)]

\* faulty variant: the item references the position of the child in rootChildren
BuildItemByPosition(childId, itemMatrix) ==
    [objectId |-> rootIdx, transformMatrix |-> itemMatrix]

\* the BuildItem of lines 251-255 (without its uuid)
BuildItem(childId, itemMatrix) == [objectId |-> childId, transformMatrix |-> itemMatrix]

\* lines 230-256: the call on a root child returned
AddBuildItem ==
    /\ pc = "ret"
    /\ stack = <<>>
    /\ IF ret = -1
       THEN /\ pc' = "root"
            /\ UNCHANGED <<matrix, allVerticesWorld, buildItems>>
       ELSE IF ~Resolvable(components, ret, Len(components) + 1)
       THEN /\ pc' = "TypeError: find"
            /\ matrix' = [matrix EXCEPT ![cur] = scene.pose[cur]]
            /\ UNCHANGED <<allVerticesWorld, buildItems>>
       ELSE LET itemMatrix == ItemMatrix(cur)
            IN  /\ pc' = "root"
                /\ matrix' = [matrix EXCEPT ![cur] = scene.pose[cur]]
                /\ allVerticesWorld' =
                       allVerticesWorld \o ItemVerticesWorld(components, ret, itemMatrix)
                /\ buildItems' =
                       Append(buildItems, BuildItem(ret, itemMatrix))
    /\ rootIdx' = rootIdx + 1
    /\ UNCHANGED <<normalizeVars, componentVars, first, scene, matrixWorld, components, materials, origin, stack, cur, ret,
                   shift, mainModelXml, modelSettingsXml, projectSettingsConfig, zip, blob>>

\* ------------------------------------------------------- print configuration
\* defaultPrintConfig (lines 59-74); lengths in millimetres
defaultPrintConfig ==
    [printer_name |-> "Bambu Lab A1",
     filament |-> "Bambu PLA Basic @BBL A1",
     printableWidth |-> printableWidth,
     printableDepth |-> printableDepth,
     printableHeight |-> printableHeight,
     printableArea |-> <<"0x0", "256x0", "256x256", "0x256">>,
     printerSettingsId |-> "Bambu Lab A1 0.4 nozzle",
     printSettingsId |-> "0.20mm Standard @BBL A1",
     compression |-> "standard",
     metadata |-> [Application |-> "BambuStudio-02.04.00.70",
                   ApplicationTitle |-> "Exported 3D Model"]]

\* Object.assign({}, defaultPrintConfig, printJobConfig) (line 91)
ObjectAssign(defaults, given) ==
    [k \in DOMAIN defaults \cup DOMAIN given |->
        IF k \in DOMAIN given THEN given[k] ELSE defaults[k]]

printConfig == ObjectAssign(defaultPrintConfig, scene.config)

\* --------------------------------------------------------- centering logic
RECURSIVE MinOf(_, _, _)
\* the forEach of lines 263-266 for one coordinate, from Infinity
MinOf(vs, k, j) ==
    IF j = Len(vs) THEN vs[j][k] ELSE Min2(vs[j][k], MinOf(vs, k, j + 1))

RECURSIVE MaxOf(_, _, _)
MaxOf(vs, k, j) ==
    IF j = Len(vs) THEN vs[j][k] ELSE Max2(vs[j][k], MaxOf(vs, k, j + 1))

\* lines 260-267
BoundingBox(vs) ==
    IF Len(vs) > 0
    THEN [min |-> [x |-> MinOf(vs, 1, 1), y |-> MinOf(vs, 2, 1), z |-> MinOf(vs, 3, 1)],
          max |-> [x |-> MaxOf(vs, 1, 1), y |-> MaxOf(vs, 2, 1), z |-> MaxOf(vs, 3, 1)]]
    ELSE [min |-> [x |-> 0, y |-> 0, z |-> 0], max |-> [x |-> 0, y |-> 0, z |-> 0]]

\* faulty variant: the model is centred on the bed plane in z as well
ShiftCentredInZ(vs, config) ==
    LET box == BoundingBox(vs)
    IN  [x |-> (config.printableWidth * TicksPerMm) \div 2 - (box.min.x + box.max.x) \div 2,
         y |-> (config.printableDepth * TicksPerMm) \div 2 - (box.min.y + box.max.y) \div 2,
         z |-> 0 - (box.min.z + box.max.z) \div 2]

\* lines 269-271, in ticks
Shift(vs, config) ==
    LET box == BoundingBox(vs)
        modelCenter == [x |-> (box.min.x + box.max.x) \div 2,
                        y |-> (box.min.y + box.max.y) \div 2,
                        z |-> (box.min.z + box.max.z) \div 2]
        bedCenter == [x |-> (config.printableWidth * TicksPerMm) \div 2,
                      y |-> (config.printableDepth * TicksPerMm) \div 2,
                      z |-> 0]
    IN  [x |-> bedCenter.x - modelCenter.x,
         y |-> bedCenter.y - modelCenter.y,
         z |-> bedCenter.z - box.min.z]

\* lines 259-271: the root loop is over
CenteringLogic ==
    /\ pc = "root"
    /\ rootIdx > Len(RootChildren)
    /\ shift' = Shift(allVerticesWorld, printConfig)
    /\ pc' = "emit"
    /\ UNCHANGED <<normalizeVars, componentVars, first, scene, matrix, matrixWorld, components, materials, buildItems,
                   allVerticesWorld, origin, stack, cur, ret, rootIdx, mainModelXml,
                   modelSettingsXml, projectSettingsConfig, zip, blob>>

\* ------------------------------------------------------ document emitters
\* faulty variant: the linear entries are printed row by row
TransformStringByRows(e, tx, ty, tz) ==
    << ToFixedLinear(E(e, 0)), ToFixedLinear(E(e, 4)), ToFixedLinear(E(e, 8)),
       ToFixedLinear(E(e, 1)), ToFixedLinear(E(e, 5)), ToFixedLinear(E(e, 9)),
       ToFixedLinear(E(e, 2)), ToFixedLinear(E(e, 6)), ToFixedLinear(E(e, 10)),
       ToFixed(tx), ToFixed(ty), ToFixed(tz) >>

\* the transform string of lines 309 and 328: elements 0 1 2 4 5 6 8 9 10 and
\* the three translation entries, each through toFixed(5)
TransformString(e, tx, ty, tz) ==
    << ToFixedLinear(E(e, 0)), ToFixedLinear(E(e, 1)), ToFixedLinear(E(e, 2)),
       ToFixedLinear(E(e, 4)), ToFixedLinear(E(e, 5)), ToFixedLinear(E(e, 6)),
       ToFixedLinear(E(e, 8)), ToFixedLinear(E(e, 9)), ToFixedLinear(E(e, 10)),
       ToFixed(tx), ToFixed(ty), ToFixed(tz) >>

\* the <object> of one component (lines 305-317)
ObjectXml(c) ==
    IF c.type = "assembly"
    THEN [id |-> c.id, name |-> c.name,
          components |-> [k \in 1..Len(c.subComponents) |->
              LET sc == c.subComponents[k]
              IN  [objectid |-> sc.objectId,
                   transform |-> TransformString(sc.transform, E(sc.transform, 12),
                                                 E(sc.transform, 13), E(sc.transform, 14))]],
          vertices |-> <<>>, triangles |-> <<>>]
    ELSE [id |-> c.id, name |-> c.name, components |-> <<>>,
          vertices |-> [k \in 1..Len(c.vertices) |->
              <<ToFixed(c.vertices[k][1]), ToFixed(c.vertices[k][2]), ToFixed(c.vertices[k][3])>>],
          triangles |-> c.triangles]

\* faulty variant: the shift is added to the translation twice
ItemXmlShiftedTwice(item, sh) ==
    LET e == item.transformMatrix
    IN  [objectid |-> item.objectId,
         transform |-> TransformString(e, E(e, 12) + 2 * sh.x, E(e, 13) + 2 * sh.y,
                                       E(e, 14) + 2 * sh.z)]

\* the <item> of one build item (lines 320-330)
ItemXml(item, sh) ==
    LET e == item.transformMatrix
    IN  [objectid |-> item.objectId,
         transform |-> TransformString(e, E(e, 12) + sh.x, E(e, 13) + sh.y, E(e, 14) + sh.z)]

\* v.x.toFixed(5) of an undefined coordinate throws a TypeError (line 314)
ToFixedThrows(comps) ==
    \E k \in 1..Len(comps) :
        comps[k].type # "assembly" /\ UndefinedVertex \in Range(comps[k].vertices)

\* createMainModelXML (lines 297-342); CreationDate is left out
MainModelXML(comps, items, sh, config) ==
    [metadata |-> config.metadata,
     resources |-> [k \in 1..Len(comps) |-> ObjectXml(comps[k])],
     build |-> [k \in 1..Len(items) |-> ItemXml(items[k], sh)]]

\* faulty variant: an assembly is pushed as a part as well as its leaves
RECURSIVE CollectWithAssemblies(_, _)
CollectWithAssemblies(comps, c) ==
    IF c.type = "mesh" THEN <<c>>
    ELSE <<c>> \o Flatten([k \in 1..Len(c.subComponents) |->
            CollectWithAssemblies(comps, FindComponent(comps, c.subComponents[k].objectId)[1])])

\* collect (lines 358-362): the mesh leaves below component c, in order
RECURSIVE Collect(_, _)
Collect(comps, c) ==
    IF c.type = "mesh" THEN <<c>>
    ELSE Flatten([k \in 1..Len(c.subComponents) |->
            Collect(comps, FindComponent(comps, c.subComponents[k].objectId)[1])])

\* the extruder of a part (line 366)
PartExtruder(p) == IF p.material # <<>> THEN p.material[1].extruder ELSE 1

\* createModelSettingsXML (lines 347-402)
ModelSettingsXML(comps, items) ==
    [objects |-> [k \in 1..Len(items) |->
        LET comp == FindComponent(comps, items[k].objectId)[1]
            parts == Collect(comps, comp)
        IN  [id |-> items[k].objectId, name |-> comp.name, extruder |-> 1,
             parts |-> [j \in 1..Len(parts) |->
                 [id |-> parts[j].id, name |-> parts[j].name,
                  extruder |-> PartExtruder(parts[j])]]]],
     instances |-> [k \in 1..Len(items) |->
        [object_id |-> items[k].objectId, instance_id |-> 0, identify_id |-> k]],
     plate |-> <<[plater_id |-> 1, plater_name |-> "plate-1"]>>,
     assemble |-> [k \in 1..Len(items) |->
        [object_id |-> items[k].objectId, instance_id |-> 0]]]

\* '#FFFFFF'
White == <<255, 255, 255>>

\* faulty variant: the list is padded to one colour only
PadColorsToOne(colors) == IF Len(colors) < 1 THEN Append(colors, White) ELSE colors

\* lines 414-416
RECURSIVE PadColors(_)
PadColors(colors) == IF Len(colors) < 2 THEN PadColors(Append(colors, White)) ELSE colors

\* Array.from({ length }).fill(value)
Filled(length, value) == [k \in 1..length |-> value]

\* createProjectSettingsConfig (lines 407-437)
ProjectSettingsConfig(mats, config) ==
    LET colors == PadColors([k \in 1..Len(mats) |-> HexString(mats[k].color)])
    IN  [printable_area |-> config.printableArea,
         printable_height |-> config.printableHeight,
         filament_colour |-> colors,
         filament_settings_id |-> Filled(Len(colors), config.filament),
         filament_diameter |-> Filled(Len(colors), "1.75"),
         filament_is_support |-> Filled(Len(colors), "0"),
         printer_model |-> config.printer_name,
         printer_settings_id |-> config.printerSettingsId,
         print_settings_id |-> config.printSettingsId]

\* lines 274-276: the three documents; a TypeError thrown by the first or
\* the second ends the export
GenerateXML ==
    /\ pc = "emit"
    /\ IF ToFixedThrows(components)
       THEN /\ pc' = "TypeError: toFixed"
            /\ UNCHANGED <<mainModelXml, modelSettingsXml, projectSettingsConfig>>
       ELSE IF \E k \in 1..Len(buildItems) :
                  ~Resolvable(components, buildItems[k].objectId, Len(components) + 1)
       THEN /\ pc' = "TypeError: find"
            /\ mainModelXml' = <<MainModelXML(components, buildItems, shift, printConfig)>>
            /\ UNCHANGED <<modelSettingsXml, projectSettingsConfig>>
       ELSE /\ pc' = "zip"
            /\ mainModelXml' = <<MainModelXML(components, buildItems, shift, printConfig)>>
            /\ modelSettingsXml' = <<ModelSettingsXML(components, buildItems)>>
            /\ projectSettingsConfig' = <<ProjectSettingsConfig(materials, printConfig)>>
    /\ UNCHANGED <<normalizeVars, componentVars, first, scene, matrix, matrixWorld, components, materials, buildItems,
                   allVerticesWorld, origin, stack, cur, ret, rootIdx, shift, zip, blob>>

\* --------------------------------------------------------- package assembler
\* faulty variant: the content types are written first
ZipFilesContentTypesFirst ==
    << "[Content_Types].xml", "_rels/.rels", "3D/3dmodel.model",
       "Metadata/model_settings.config", "Metadata/project_settings.config" >>

\* the zip.file calls of lines 279-288, in program order
ZipFiles ==
    << "_rels/.rels", "3D/3dmodel.model", "Metadata/model_settings.config",
       "Metadata/project_settings.config", "[Content_Types].xml" >>

\* JSZipCompressionMap (line 76)
JSZipCompressionMap == [standard |-> "DEFLATE", none |-> "STORE"]

\* lines 278-291: the five entries are written and the archive is generated
ZipPackaging ==
    /\ pc = "zip"
    /\ zip' = zip \o ZipFiles
    /\ blob' = <<[files |-> zip', compression |-> JSZipCompressionMap[printConfig.compression]]>>
    /\ pc' = "done"
    /\ UNCHANGED <<normalizeVars, componentVars, first, scene, matrix, matrixWorld, components, materials, buildItems,
                   allVerticesWorld, origin, stack, cur, ret, rootIdx, shift, mainModelXml,
                   modelSettingsXml, projectSettingsConfig>>

\* ====================================================== SvgTo3D.vue component
\* null
Null == <<>>

\* startZ and depth are held in thousandths of a millimetre, one digit finer
\* than the toFixed(2) of batchEditNumericProperty (line 343)
UnitsPerMm == 1000

\* a shape of svgShapes: startZ and depth
Shape(startZ, depth) == [startZ |-> startZ, depth |-> depth]

\* createShapesWithColor(svgData, { defaultDepth, defaultStartZ: 0 }) for an
\* SVG of n shapes (lines 54-58)
UserShapes(n) == [k \in 1..n |-> Shape(0, defaultDepth * UnitsPerMm)]

\* the built-in logo after customShapes (lines 39-40 and 72-76): startZ
\* 0, 2.1, 2.1 and depth 2.1, 0, 1 for its first three shapes
DefaultSvgShapes == << Shape(0, 2100), Shape(2100, 0), Shape(2100, 1000) >>

\* shownShapes (line 46) as the svgShapes indices (0-based) of the shapes
\* with a depth, in order
RECURSIVE ShownFrom(_)
ShownFrom(i) ==
    IF i >= Len(svgShapes) THEN <<>>
    ELSE (IF svgShapes[i + 1].depth # 0 THEN <<i>> ELSE <<>>) \o ShownFrom(i + 1)

shownShapes == ShownFrom(0)

\* toSvgIndex (lines 175-177): findIndex gives -1 when nothing is found
toSvgIndex(index) ==
    IF index >= 0 /\ index < Len(shownShapes) THEN shownShapes[index + 1] ELSE -1

\* isLoaded (line 437)
isLoaded == Len(svgShapes) > 0 /\ ~isDefaultSvg

\* a handler and its arguments
Event(handler, index, ctrlKey, metaKey, shiftKey) ==
    [handler |-> handler, index |-> index, ctrlKey |-> ctrlKey, metaKey |-> metaKey,
     shiftKey |-> shiftKey]

Handled(handler) == Event(handler, -1, FALSE, FALSE, FALSE)

\* faulty variant: Ctrl/Cmd + click adds the item and never removes it
toggleSelectionCtrlOnlyAdds(index, ctrlKey, metaKey, shiftKey) ==
    IF isDefaultSvg \/ isExporting
    THEN [selected |-> selectedShapeIndices, last |-> lastSelectedIndex]
    ELSE IF shiftKey /\ lastSelectedIndex # Null
    THEN [selected |-> (IF ctrlKey \/ metaKey THEN selectedShapeIndices ELSE {})
                       \cup (Min2(lastSelectedIndex[1], index)..Max2(lastSelectedIndex[1], index)),
          last |-> <<index>>]
    ELSE IF ctrlKey \/ metaKey
    THEN [selected |-> selectedShapeIndices \cup {index}, last |-> <<index>>]
    ELSE [selected |-> {index}, last |-> <<index>>]

\* faulty variant: a range select leaves lastSelectedIndex as it was
toggleSelectionRangeKeepsAnchor(index, ctrlKey, metaKey, shiftKey) ==
    IF isDefaultSvg \/ isExporting
    THEN [selected |-> selectedShapeIndices, last |-> lastSelectedIndex]
    ELSE IF shiftKey /\ lastSelectedIndex # Null
    THEN [selected |-> (IF ctrlKey \/ metaKey THEN selectedShapeIndices ELSE {})
                       \cup (Min2(lastSelectedIndex[1], index)..Max2(lastSelectedIndex[1], index)),
          last |-> lastSelectedIndex]
    ELSE IF ctrlKey \/ metaKey
    THEN [selected |-> IF index \in selectedShapeIndices
                       THEN selectedShapeIndices \ {index}
                       ELSE selectedShapeIndices \cup {index},
          last |-> <<index>>]
    ELSE [selected |-> {index}, last |-> <<index>>]

\* toggleSelection (lines 229-256): the new selectedShapeIndices and
\* lastSelectedIndex
toggleSelection(index, ctrlKey, metaKey, shiftKey) ==
    LET isCtrlOrCmd == ctrlKey \/ metaKey
        isShift == shiftKey
    IN  IF isDefaultSvg \/ isExporting
        THEN [selected |-> selectedShapeIndices, last |-> lastSelectedIndex]
        ELSE IF isShift /\ lastSelectedIndex # Null
        THEN LET start == Min2(lastSelectedIndex[1], index)
                 end == Max2(lastSelectedIndex[1], index)
                 rangeSet == IF isCtrlOrCmd THEN selectedShapeIndices ELSE {}
             IN  [selected |-> rangeSet \cup (start..end), last |-> <<index>>]
        ELSE IF isCtrlOrCmd
        THEN [selected |-> IF index \in selectedShapeIndices
                           THEN selectedShapeIndices \ {index}
                           ELSE selectedShapeIndices \cup {index},
              last |-> <<index>>]
        ELSE [selected |-> {index}, last |-> <<index>>]

\* a click on a list item (line 552): selectAndFocus (lines 259-262); the list
\* is rendered when isLoaded (line 524)
selectAndFocus ==
    /\ isLoaded
    /\ \E index \in 0..(Len(svgShapes) - 1), ctrlKey \in BOOLEAN, metaKey \in BOOLEAN,
          shiftKey \in BOOLEAN :
        LET r == toggleSelection(index, ctrlKey, metaKey, shiftKey)
        IN  /\ selectedShapeIndices' = r.selected
            /\ lastSelectedIndex' = r.last
            /\ lastEvent' = Event("selectAndFocus", index, ctrlKey, metaKey, shiftKey)
    /\ UNCHANGED <<exporterVars, normalizeVars, edits, svgShapes, isDefaultSvg, isExporting, pendingFetches>>

\* a click on an input area of a list item (lines 293-311)
handleInputAreaClick ==
    /\ isLoaded
    /\ \E index \in 0..(Len(svgShapes) - 1), ctrlKey \in BOOLEAN, metaKey \in BOOLEAN,
          shiftKey \in BOOLEAN :
        LET hasModifier == ctrlKey \/ metaKey \/ shiftKey
            r == toggleSelection(index, ctrlKey, metaKey, shiftKey)
        IN  /\ IF hasModifier
               THEN /\ selectedShapeIndices' = r.selected
                    /\ lastSelectedIndex' = r.last
               ELSE IF index \notin selectedShapeIndices
               THEN /\ selectedShapeIndices' = {index}
                    /\ lastSelectedIndex' = <<index>>
               ELSE UNCHANGED <<selectedShapeIndices, lastSelectedIndex>>
            /\ lastEvent' = Event("handleInputAreaClick", index, ctrlKey, metaKey, shiftKey)
    /\ UNCHANGED <<exporterVars, normalizeVars, edits, svgShapes, isDefaultSvg, isExporting, pendingFetches>>

\* a click on a mesh of the renderer, which shows shownShapes (lines 314-318);
\* the event records the index handed to toggleSelection
handleMeshClick ==
    /\ \E index \in 0..(Len(shownShapes) - 1), ctrlKey \in BOOLEAN, metaKey \in BOOLEAN,
          shiftKey \in BOOLEAN :
        LET r == toggleSelection(toSvgIndex(index), ctrlKey, metaKey, shiftKey)
        IN  /\ IF isDefaultSvg \/ isExporting
               THEN UNCHANGED <<selectedShapeIndices, lastSelectedIndex>>
               ELSE /\ selectedShapeIndices' = r.selected
                    /\ lastSelectedIndex' = r.last
            /\ lastEvent' = Event("handleMeshClick", toSvgIndex(index), ctrlKey, metaKey, shiftKey)
    /\ UNCHANGED <<exporterVars, normalizeVars, edits, svgShapes, isDefaultSvg, isExporting, pendingFetches>>

\* pointer-missed of the renderer (line 465): clearSelection (lines 265-268)
clearSelection ==
    /\ selectedShapeIndices' = {}
    /\ lastSelectedIndex' = Null
    /\ lastEvent' = Handled("clearSelection")
    /\ UNCHANGED <<exporterVars, normalizeVars, edits, svgShapes, isDefaultSvg, isExporting, pendingFetches>>

\* mapIndices (lines 180-189) with toSvgIndex as the mapper
mapIndicesToSvg(indices) == {toSvgIndex(i) : i \in indices} \ {-1}

\* the renderer writes v-model:selected-shape-indices (line 446): the setter
\* of selectedShownShapeIndices (lines 199-203); lastSelectedIndex stays
selectedShownShapeIndicesSet ==
    /\ \E indices \in SUBSET (0..Len(shownShapes)) :
        IF isDefaultSvg \/ isExporting
        THEN UNCHANGED selectedShapeIndices
        ELSE selectedShapeIndices' = mapIndicesToSvg(indices)
    /\ lastEvent' = Handled("selectedShownShapeIndices.set")
    /\ UNCHANGED <<exporterVars, normalizeVars, edits, svgShapes, lastSelectedIndex, isDefaultSvg, isExporting,
                   pendingFetches>>

\* the user mounts an SVG of n shapes by paste or file (lines 92-109 and
\* 395-402): mountSVG (lines 52-64)
mountSVG ==
    /\ \E n \in 0..MaxShapes : svgShapes' = UserShapes(n)
    /\ isDefaultSvg' = FALSE
    /\ lastEvent' = Handled("mountSVG")
    /\ UNCHANGED <<exporterVars, normalizeVars, edits, selectedShapeIndices, lastSelectedIndex, isExporting,
                   pendingFetches>>

\* a fetch of loadDefaultSvg answers (lines 68-77)
loadDefaultSvg ==
    /\ pendingFetches > 0
    /\ pendingFetches' = pendingFetches - 1
    /\ svgShapes' = DefaultSvgShapes
    /\ isDefaultSvg' = TRUE
    /\ lastEvent' = Handled("loadDefaultSvg")
    /\ UNCHANGED <<exporterVars, normalizeVars, edits, selectedShapeIndices, lastSelectedIndex, isExporting>>

\* a fetch of loadDefaultSvg fails (lines 79-81)
loadDefaultSvgFails ==
    /\ pendingFetches > 0
    /\ pendingFetches' = pendingFetches - 1
    /\ lastEvent' = Handled("loadDefaultSvg: catch")
    /\ UNCHANGED <<exporterVars, normalizeVars, edits, svgShapes, selectedShapeIndices, lastSelectedIndex,
                   isDefaultSvg, isExporting>>

\* the close button, rendered when isLoaded (lines 475-480): handleClose
\* (lines 426-435)
handleClose ==
    /\ isLoaded
    /\ pendingFetches < MaxPendingFetches
    /\ svgShapes' = <<>>
    /\ selectedShapeIndices' = {}
    /\ lastSelectedIndex' = Null
    /\ isExporting' = FALSE
    /\ pendingFetches' = pendingFetches + 1
    /\ lastEvent' = Handled("handleClose")
    /\ UNCHANGED <<exporterVars, normalizeVars, edits, isDefaultSvg>>

\* ModelExporter, rendered when isLoaded, sets v-model:is-exporting (line 609)
exportStarts ==
    /\ isLoaded
    /\ ~isExporting
    /\ isExporting' = TRUE
    /\ lastEvent' = Handled("update:isExporting true")
    /\ UNCHANGED <<exporterVars, normalizeVars, edits, svgShapes, selectedShapeIndices, lastSelectedIndex,
                   isDefaultSvg, pendingFetches>>

exportEnds ==
    /\ isExporting
    /\ isExporting' = FALSE
    /\ lastEvent' = Handled("update:isExporting false")
    /\ UNCHANGED <<exporterVars, normalizeVars, edits, svgShapes, selectedShapeIndices, lastSelectedIndex,
                   isDefaultSvg, pendingFetches>>

\* the component after setup and onMounted (lines 17-25, 38, 162-164): the
\* first fetch of the default SVG is on its way
Mounted ==
    /\ svgShapes = <<>>
    /\ selectedShapeIndices = {}
    /\ lastSelectedIndex = Null
    /\ isDefaultSvg = FALSE
    /\ isExporting = FALSE
    /\ pendingFetches = 1
    /\ lastEvent = Handled("onMounted")
    /\ edits = 0

\* ------------------------------------------------- numeric edits of a shape
\* the range of the startZ input (lines 576-577, 366-367) and of the depth
\* input (lines 590-591, 372-373)
StartZMin == 0 - 10 * UnitsPerMm
StartZMax == 10 * UnitsPerMm
DepthMin == 0
DepthMax == 10 * UnitsPerMm

\* clampNumber (lines 325-327)
clampNumber(value, min, max) == Min2(max, Max2(min, value))

\* Number(x.toFixed(2)) (line 343): the nearest hundredth, a half away from zero
ToFixed2(x) ==
    LET hundredth == UnitsPerMm \div 100
        magnitude == IF x < 0 THEN 0 - x ELSE x
        rounded == ((2 * magnitude + hundredth) \div (2 * hundredth)) * hundredth
    IN  IF x < 0 THEN 0 - rounded ELSE rounded

\* shouldBatchEdit (lines 321-323)
shouldBatchEdit(index) ==
    index \in selectedShapeIndices /\ Cardinality(selectedShapeIndices) > 1

\* the handler, its arguments, whether it threw, and the shapes it found
EditEvent(handler, index, value, threw) ==
    [handler |-> handler, index |-> index, value |-> value, threw |-> threw,
     before |-> svgShapes,
     ctrlKey |-> FALSE, metaKey |-> FALSE, shiftKey |-> FALSE]

\* faulty variant: the loop assigns the delta instead of adding it
BatchEditedAssigns(done, delta, prop, min, max) ==
    [k \in 1..Len(svgShapes) |->
        IF (k - 1) \in done
        THEN [svgShapes[k] EXCEPT ![prop] = clampNumber(ToFixed2(delta), min, max)]
        ELSE svgShapes[k]]

\* faulty variant: the setter of the batch loop does not clamp
BatchEditedUnclamped(done, delta, prop, min, max) ==
    [k \in 1..Len(svgShapes) |->
        IF (k - 1) \in done
        THEN [svgShapes[k] EXCEPT ![prop] = ToFixed2(svgShapes[k][prop] + delta)]
        ELSE svgShapes[k]]

\* the loop of lines 341-344 run over the indices of done: the getter, the
\* delta, toFixed(2) and the clamping setter
BatchEdited(done, delta, prop, min, max) ==
    [k \in 1..Len(svgShapes) |->
        IF (k - 1) \in done
        THEN [svgShapes[k] EXCEPT ![prop] = clampNumber(ToFixed2(svgShapes[k][prop] + delta), min, max)]
        ELSE svgShapes[k]]

\* batchEditNumericProperty (lines 333-349) called by a handler with the
\* clamped value. A selected index without a shape makes the getter throw a
\* TypeError in the middle of the loop: the selected shapes the Set yields
\* before it are edited, the others are not.
batchEditNumericProperty(handler, index, value, newValue, prop, min, max) ==
    IF shouldBatchEdit(index)
    THEN LET delta == newValue - svgShapes[index + 1][prop]
             present == {i \in selectedShapeIndices : i < Len(svgShapes)}
         IN  IF present = selectedShapeIndices
             THEN /\ svgShapes' = BatchEdited(selectedShapeIndices, delta, prop, min, max)
                  /\ lastEvent' = EditEvent(handler, index, value, FALSE)
             ELSE \E done \in SUBSET present :
                      /\ svgShapes' = BatchEdited(done, delta, prop, min, max)
                      /\ lastEvent' = EditEvent(handler, index, value, TRUE)
    ELSE /\ svgShapes' = [svgShapes EXCEPT ![index + 1][prop] = clampNumber(newValue, min, max)]
         /\ lastEvent' = EditEvent(handler, index, value, FALSE)

\* the values a user asks for: below, inside and above the range, one of
\* them not a multiple of a hundredth
StartZRequests == {0 - 12 * UnitsPerMm, 2504, 12 * UnitsPerMm}
DepthRequests == {0 - UnitsPerMm, 5 * UnitsPerMm, 12 * UnitsPerMm}

\* handleStartZChange (lines 365-368), from the startZ input of a list item
handleStartZChange ==
    /\ isLoaded
    /\ edits < MaxEdits
    /\ \E index \in 0..(Len(svgShapes) - 1), value \in StartZRequests :
        LET clampedValue == clampNumber(value, StartZMin, StartZMax)
        IN  batchEditNumericProperty("handleStartZChange", index, value, clampedValue,
                                     "startZ", StartZMin, StartZMax)
    /\ edits' = edits + 1
    /\ UNCHANGED <<exporterVars, normalizeVars, selectedShapeIndices, lastSelectedIndex, isDefaultSvg,
                   isExporting, pendingFetches>>

\* handleDepthChange (lines 371-374), from the depth input of a list item
handleDepthChange ==
    /\ isLoaded
    /\ edits < MaxEdits
    /\ \E index \in 0..(Len(svgShapes) - 1), value \in DepthRequests :
        LET clampedValue == clampNumber(value, DepthMin, DepthMax)
        IN  batchEditNumericProperty("handleDepthChange", index, value, clampedValue,
                                     "depth", DepthMin, DepthMax)
    /\ edits' = edits + 1
    /\ UNCHANGED <<exporterVars, normalizeVars, selectedShapeIndices, lastSelectedIndex, isDefaultSvg,
                   isExporting, pendingFetches>>

\* the shapes single edits leave before a batch edit: as mounted, or raised
\* to startZ 9 and thinned to depth 0.004
EditedShapes == {Shape(0, defaultDepth * UnitsPerMm), Shape(9 * UnitsPerMm, 4)}

\* a user SVG is mounted, single edits have set its numbers, and clicks have
\* left a selection; the selection can hold the index of a shape of an
\* earlier, longer SVG, since mountSVG does not clear it
Editing ==
    /\ \E n \in 1..MaxEditShapes :
        svgShapes \in [1..n -> EditedShapes]
    /\ selectedShapeIndices \in SUBSET (0..MaxEditShapes)
    /\ lastSelectedIndex = IF selectedShapeIndices = {} THEN Null
                           ELSE <<CHOOSE i \in selectedShapeIndices : TRUE>>
    /\ isDefaultSvg = FALSE
    /\ isExporting = FALSE
    /\ pendingFetches = 0
    /\ lastEvent = Handled("mountSVG")
    /\ edits = 0

\* =========================================== useSvgLoader: normalizePathDirections
\* the d attribute of a path element, by what getFixedPathDataString does
\* with it: "" is an empty attribute, "ccw" is path data already wound as
\* wanted, "cw" is path data that gets rewound, "void" is path data for which
\* an empty string comes back, "bad" is path data on which the call throws
PathData == {"", "ccw", "cw", "void", "bad"}

\* getFixedPathDataString(d, { toClockwise: true }); Threw for an exception
Threw == "(exception)"

getFixedPathDataString(d) ==
    CASE d = "cw" -> "cw rewound"
      [] d = "ccw" -> "ccw"
      [] d = "void" -> ""
      [] d = "bad" -> Threw
      [] OTHER -> d

\* an SVG string: whether it parses, the d of its path[d] elements in
\* document order, and which DOM call throws on it, if any
Markups ==
    [wellFormed : BOOLEAN,
     paths : UNION {[1..n -> PathData] : n \in 0..MaxPaths},
     throwing : {"nothing", "parseFromString", "serializeToString"}]

\* serializer.serializeToString(doc.documentElement): a new string, written
\* from the document, which is not the string that was parsed
serializeToString(paths) == [serialized |-> paths]

\* faulty variant: the first path that throws aborts the whole call
CaughtPerCallAt(position) == "catch"

\* where forEach goes after the catch of lines 111-114: on to the next path
CaughtPerPathAt(position) == position

\* normalizePathDirections has not been called
NotCalled ==
    /\ svgMarkup = <<>>
    /\ hasDomParser = FALSE
    /\ hasXmlSerializer = FALSE
    /\ svgDoc = <<>>
    /\ modified = FALSE
    /\ pathIdx = 0
    /\ at = "idle"
    /\ returned = <<>>

\* lines 87-88
CheckDomParser ==
    /\ at = "call"
    /\ IF ~hasDomParser
       THEN /\ returned' = svgMarkup
            /\ at' = "done"
       ELSE /\ at' = "parse"
            /\ UNCHANGED returned
    /\ UNCHANGED <<exporterVars, componentVars, svgMarkup, hasDomParser, hasXmlSerializer, svgDoc,
                   modified, pathIdx>>

\* lines 90-97: parse, look for parsererror, select path[d]
Parse ==
    /\ at = "parse"
    /\ IF svgMarkup.throwing = "parseFromString"
       THEN /\ at' = "catch"
            /\ UNCHANGED <<returned, svgDoc, modified, pathIdx>>
       ELSE IF ~svgMarkup.wellFormed
       THEN /\ returned' = svgMarkup
            /\ at' = "done"
            /\ UNCHANGED <<svgDoc, modified, pathIdx>>
       ELSE /\ svgDoc' = svgMarkup.paths
            /\ modified' = FALSE
            /\ pathIdx' = 1
            /\ at' = "paths"
            /\ UNCHANGED returned
    /\ UNCHANGED <<exporterVars, componentVars, svgMarkup, hasDomParser, hasXmlSerializer>>

\* lines 99-115: one call of the forEach callback
EachPath ==
    /\ at = "paths"
    /\ pathIdx <= Len(svgDoc)
    /\ LET d == svgDoc[pathIdx]
           fixed == getFixedPathDataString(d)
       IN  IF d = ""
           THEN /\ pathIdx' = pathIdx + 1
                /\ UNCHANGED <<svgDoc, modified, at>>
           ELSE IF fixed = Threw
           THEN /\ at' = CaughtPerPathAt(at)
                /\ pathIdx' = pathIdx + 1
                /\ UNCHANGED <<svgDoc, modified>>
           ELSE IF fixed # "" /\ fixed # d
           THEN /\ svgDoc' = [svgDoc EXCEPT ![pathIdx] = fixed]
                /\ modified' = TRUE
                /\ pathIdx' = pathIdx + 1
                /\ UNCHANGED at
           ELSE /\ pathIdx' = pathIdx + 1
                /\ UNCHANGED <<svgDoc, modified, at>>
    /\ UNCHANGED <<exporterVars, componentVars, svgMarkup, hasDomParser, hasXmlSerializer, returned>>

\* lines 117-124: after the forEach
Serialize ==
    /\ at = "paths"
    /\ pathIdx > Len(svgDoc)
    /\ IF ~modified \/ ~hasXmlSerializer
       THEN /\ returned' = svgMarkup
            /\ at' = "done"
       ELSE IF svgMarkup.throwing = "serializeToString"
       THEN /\ at' = "catch"
            /\ UNCHANGED returned
       ELSE /\ returned' = serializeToString(svgDoc)
            /\ at' = "done"
    /\ UNCHANGED <<exporterVars, componentVars, svgMarkup, hasDomParser, hasXmlSerializer, svgDoc,
                   modified, pathIdx>>

\* lines 126-130: the outer catch
Catch ==
    /\ at = "catch"
    /\ returned' = svgMarkup
    /\ at' = "done"
    /\ UNCHANGED <<exporterVars, componentVars, svgMarkup, hasDomParser, hasXmlSerializer, svgDoc,
                   modified, pathIdx>>

\* normalizePathDirections(svgMarkup) is called in an environment with or
\* without DOMParser and XMLSerializer (lines 83-84)
Called ==
    /\ svgMarkup \in Markups
    /\ hasDomParser \in BOOLEAN
    /\ hasXmlSerializer \in BOOLEAN
    /\ svgDoc = <<>>
    /\ modified = FALSE
    /\ pathIdx = 0
    /\ at = "call"
    /\ returned = <<>>

\* ============================================================ specification
\* the matrices of a scene that was rendered (every matrixWorld up to date)
RECURSIVE WorldOf(_, _)
WorldOf(sc, i) ==
    MultiplyMatrices(IF sc.parent[i] = 0 THEN sc.parentWorld ELSE WorldOf(sc, sc.parent[i]),
                     sc.pose[i])

\* exportTo3MF is called on a scene whose matrices are either still those of
\* the constructors (identity) or up to date
\* exportTo3MF is entered: its argument, the matrices the scene arrives with,
\* and its empty locals
ExportEntry ==
    /\ scene \in Scenes
    /\ \E fresh \in BOOLEAN :
        /\ matrix = [i \in 1..scene.n |-> IF fresh THEN Identity ELSE scene.pose[i]]
        /\ matrixWorld = [i \in 1..scene.n |-> IF fresh THEN Identity ELSE WorldOf(scene, i)]
    /\ components = <<>>
    /\ materials = <<>>
    /\ buildItems = <<>>
    /\ allVerticesWorld = <<>>
    /\ origin = <<>>
    /\ stack = <<>>
    /\ cur = 0
    /\ ret = 0
    /\ rootIdx = 1
    /\ pc = "root"
    /\ shift = [x |-> 0, y |-> 0, z |-> 0]
    /\ mainModelXml = <<>>
    /\ modelSettingsXml = <<>>
    /\ projectSettingsConfig = <<>>
    /\ zip = <<>>
    /\ blob = <<>>
    /\ first = <<>>

Init == ExportEntry /\ Mounted /\ NotCalled

Next ==
    \/ RootNext
    \/ ProcessMesh
    \/ EnterGroup
    \/ SkipNode
    \/ NextChild
    \/ AddSubComponent
    \/ FinishGroup
    \/ AddBuildItem
    \/ CenteringLogic
    \/ GenerateXML
    \/ ZipPackaging

Spec == Init /\ [][Next]_vars

\* ------------------------------------------------------------ a second call
\* what an export leaves to compare: tables, shift and documents
Outcome ==
    [components |-> components, materials |-> materials, buildItems |-> buildItems,
     origin |-> origin, shift |-> shift, mainModelXml |-> mainModelXml,
     modelSettingsXml |-> modelSettingsXml, projectSettingsConfig |-> projectSettingsConfig,
     zip |-> zip, blob |-> blob]

\* faulty variant: the tables outlive the call, as if declared outside the
\* function
ExportAgainKeepingTables ==
    /\ pc = "done"
    /\ first = <<>>
    /\ first' = <<Outcome>>
    /\ allVerticesWorld' = <<>>
    /\ stack' = <<>>
    /\ cur' = 0
    /\ ret' = 0
    /\ rootIdx' = 1
    /\ pc' = "root"
    /\ shift' = [x |-> 0, y |-> 0, z |-> 0]
    /\ mainModelXml' = <<>>
    /\ modelSettingsXml' = <<>>
    /\ projectSettingsConfig' = <<>>
    /\ zip' = <<>>
    /\ blob' = <<>>
    /\ buildItems' = <<>>
    /\ UNCHANGED <<normalizeVars, componentVars, scene, matrix, matrixWorld, components, materials, origin>>

\* exportTo3MF is called a second time with the same object and
\* configuration: the locals of lines 89-97 are new, the matrices of the
\* nodes are what the first call left
ExportAgain ==
    /\ pc = "done"
    /\ first = <<>>
    /\ first' = <<Outcome>>
    /\ components' = <<>>
    /\ materials' = <<>>
    /\ buildItems' = <<>>
    /\ allVerticesWorld' = <<>>
    /\ origin' = <<>>
    /\ stack' = <<>>
    /\ cur' = 0
    /\ ret' = 0
    /\ rootIdx' = 1
    /\ pc' = "root"
    /\ shift' = [x |-> 0, y |-> 0, z |-> 0]
    /\ mainModelXml' = <<>>
    /\ modelSettingsXml' = <<>>
    /\ projectSettingsConfig' = <<>>
    /\ zip' = <<>>
    /\ blob' = <<>>
    /\ UNCHANGED <<normalizeVars, componentVars, scene, matrix, matrixWorld>>

\* the scenes that are exported twice
TwiceScenes == FreeScenes \cup PoseScenes \cup NestedColourScenes \cup ConfigScenes

InitTwice == Init /\ scene \in TwiceScenes

NextTwice == Next \/ ExportAgain

SpecTwice == InitTwice /\ [][NextTwice]_vars

\* ------------------------------------------------------------- the component
\* the scene the exporter holds while the component is observed
IdleScene ==
    MkScene(1, <<0>>, <<"Mesh">>, <<NoName>>, <<Identity>>, <<SingleMaterial(Red)>>,
            <<DefaultGeometry>>, Identity)

InitComponent == Init /\ scene = IdleScene

NextComponent ==
    \/ selectAndFocus
    \/ handleInputAreaClick
    \/ handleMeshClick
    \/ clearSelection
    \/ selectedShownShapeIndicesSet
    \/ mountSVG
    \/ loadDefaultSvg
    \/ loadDefaultSvgFails
    \/ handleClose
    \/ exportStarts
    \/ exportEnds

SpecComponent == InitComponent /\ [][NextComponent]_vars

\* ---------------------------------------------------------- numeric edits
InitEdit == ExportEntry /\ scene = IdleScene /\ Editing /\ NotCalled

NextEdit ==
    \/ handleStartZChange
    \/ handleDepthChange

SpecEdit == InitEdit /\ [][NextEdit]_vars

\* ------------------------------------------------- normalizePathDirections
InitNormalize == ExportEntry /\ scene = IdleScene /\ Mounted /\ Called

NextNormalize ==
    \/ CheckDomParser
    \/ Parse
    \/ EachPath
    \/ Serialize
    \/ Catch

SpecNormalize == InitNormalize /\ [][NextNormalize]_vars

\* ================================================================== claims
\* positions of exportTo3MF after the rootChildren loop
Composed == pc \in {"emit", "zip", "done", "TypeError: toFixed"}

\* C1: in every state (so after every processMesh / processNode step) the
\* component at table position k has id k: the ids are exactly 1..N, none
\* skipped, none used twice.
C1_ComponentIdsContiguous ==
    \A k \in 1..Len(components) : components[k].id = k

\* C1 witness: in the middle of the walk the table holds a mesh and an
\* assembly among at least three components
C1_Witness ==
    /\ pc = "ret"
    /\ Len(components) >= 3
    /\ \E k \in 1..Len(components) : components[k].type = "assembly"
    /\ \E k \in 1..Len(components) : components[k].type = "mesh"

\* C2: every sub-component of an assembly has an id strictly smaller than the
\* assembly's own id, and in the main model document every <component
\* objectid> names an <object> emitted earlier.
C2_SubComponentsPrecede ==
    /\ \A k \in 1..Len(components) : \A j \in 1..Len(components[k].subComponents) :
           /\ components[k].subComponents[j].objectId >= 1
           /\ components[k].subComponents[j].objectId < components[k].id
    /\ \A doc \in Range(mainModelXml) :
           \A k \in 1..Len(doc.resources) : \A j \in 1..Len(doc.resources[k].components) :
               \E earlier \in 1..(k - 1) :
                   doc.resources[earlier].id = doc.resources[k].components[j].objectid

\* C2 witness: the main model document holds an assembly of an assembly
C2_Witness ==
    \E doc \in Range(mainModelXml) :
        \E k \in 1..Len(doc.resources) : \E j \in 1..Len(doc.resources[k].components) :
            \E inner \in 1..Len(doc.resources) :
                /\ doc.resources[inner].id = doc.resources[k].components[j].objectid
                /\ doc.resources[inner].components # <<>>

\* ---- the scene, read without the exporter
\* a call of processNode on node i returns a component
RECURSIVE Yields(_)
Yields(i) ==
    \/ scene.type[i] = "Mesh"
    \/ /\ scene.type[i] \in GroupTypes
       /\ \E j \in 1..scene.n : scene.parent[j] = i /\ Yields(j)

\* the component-producing nodes below (and including) node i in depth-first
\* post-order: every child subtree in child order, then the group itself
RECURSIVE PostOrder(_)
PostOrder(i) ==
    IF scene.type[i] = "Mesh" THEN <<i>>
    ELSE IF scene.type[i] \in GroupTypes
    THEN LET below == Flatten([k \in 1..Len(Children(i)) |-> PostOrder(Children(i)[k])])
         IN  IF below = <<>> THEN <<>> ELSE Append(below, i)
    ELSE <<>>

\* the top-level nodes of the export: the children of a Scene, else the root
TopLevelNodes == IF scene.type[1] = "Scene" THEN Children(1) ELSE <<1>>

ExpectedOrder == Flatten([k \in 1..Len(TopLevelNodes) |-> PostOrder(TopLevelNodes[k])])

\* the node behind the component a build item references
ItemNode(item) == origin[item.objectId]

DistinctObjectIds ==
    \A i, j \in 1..Len(buildItems) :
        i # j => buildItems[i].objectId # buildItems[j].objectId

\* C3 as stated: a Scene root with N top-level nodes, any mix of meshes and
\* groups, produces N BuildItems, the i-th for the i-th child, with pairwise
\* distinct objectids.
C3_Original ==
    (Composed /\ scene.type[1] = "Scene"
       /\ \A k \in 1..Len(Children(1)) : scene.type[Children(1)[k]] \in {"Mesh", "Group"})
    => /\ Len(buildItems) = Len(Children(1))
       /\ \A i \in 1..Len(buildItems) : ItemNode(buildItems[i]) = Children(1)[i]
       /\ DistinctObjectIds

\* C3 amended: a Scene root produces one BuildItem for every top-level node
\* that yields a component (a mesh, or a group with a mesh reachable through
\* groups) and none for the others; the BuildItems follow the child order and
\* have pairwise distinct objectids.
C3_ItemPerYieldingChild ==
    (Composed /\ scene.type[1] = "Scene")
    => LET yielding == SelectSeq(Children(1), Yields)
       IN  /\ Len(buildItems) = Len(yielding)
           /\ \A i \in 1..Len(buildItems) : ItemNode(buildItems[i]) = yielding[i]
           /\ DistinctObjectIds

\* C3 witness: a composed Scene with a top-level mesh, a top-level group and
\* a BuildItem for each
C3_Witness ==
    /\ Composed
    /\ scene.type[1] = "Scene"
    /\ Len(buildItems) >= 2
    /\ \E i, j \in 1..Len(buildItems) :
           /\ components[buildItems[i].objectId].type = "mesh"
           /\ components[buildItems[j].objectId].type = "assembly"

\* C4: component k is made from the k-th node of the depth-first post-order
\* of the component-producing nodes and has id k; an assembly references the
\* components of its yielding children in child order, and the BuildItems
\* reference the components of the top-level nodes.
C4_DepthFirstPostOrder ==
    LET expected == ExpectedOrder
    IN  /\ Len(components) <= Len(expected)
        /\ \A k \in 1..Len(components) :
               /\ components[k].id = k
               /\ origin[k] = expected[k]
               /\ components[k].type = "assembly" =>
                      [j \in 1..Len(components[k].subComponents) |->
                          origin[components[k].subComponents[j].objectId]]
                      = SelectSeq(Children(origin[k]), Yields)
        /\ Composed =>
               /\ Len(components) = Len(expected)
               /\ [i \in 1..Len(buildItems) |-> ItemNode(buildItems[i])]
                  = SelectSeq(TopLevelNodes, Yields)

\* C4 witness: Scene -> GroupA{MeshA1}, GroupB{MeshB1} gives MeshA1 = 1,
\* GroupA = 2, MeshB1 = 3, GroupB = 4 and BuildItems referencing 2 and 4
C4_Witness ==
    /\ Composed
    /\ scene.n = 5
    /\ scene.type = <<"Scene", "Group", "Mesh", "Group", "Mesh">>
    /\ scene.parent = <<0, 1, 2, 1, 4>>
    /\ origin = <<3, 2, 5, 4>>
    /\ [k \in 1..Len(components) |-> components[k].id] = <<1, 2, 3, 4>>
    /\ [i \in 1..Len(buildItems) |-> buildItems[i].objectId] = <<2, 4>>

\* C5 as stated: a root that is a single Mesh or a single Group gives exactly
\* one BuildItem, referencing the component of the root, which has the
\* largest id.
C5_Original ==
    (Composed /\ scene.type[1] \in {"Mesh", "Group"})
    => /\ Len(buildItems) = 1
       /\ buildItems[1].objectId = Len(components)
       /\ ItemNode(buildItems[1]) = 1

\* C5 amended: a root that is a single Mesh, or a single Group that yields a
\* component, gives exactly one BuildItem, referencing the component of the
\* root, which has the largest id (a Group that yields none gives no
\* BuildItem); a lone mesh gives one mesh component with id 1; a group of k
\* child meshes gives mesh components 1..k in child order and the assembly
\* k + 1 referencing all of them.
C5_SingleRoot ==
    (Composed /\ scene.type[1] \in {"Mesh", "Group"})
    => /\ Yields(1) =>
              /\ Len(buildItems) = 1
              /\ buildItems[1].objectId = Len(components)
              /\ components[Len(components)].id = Len(components)
              /\ ItemNode(buildItems[1]) = 1
       /\ ~Yields(1) => buildItems = <<>>
       /\ scene.type[1] = "Mesh" =>
              /\ Len(components) = 1
              /\ components[1].id = 1
              /\ components[1].type = "mesh"
       /\ (scene.type[1] = "Group" /\ Children(1) # <<>>
             /\ \A k \in 1..Len(Children(1)) : scene.type[Children(1)[k]] = "Mesh") =>
              LET k == Len(Children(1))
              IN  /\ Len(components) = k + 1
                  /\ \A i \in 1..k : /\ components[i].id = i
                                     /\ components[i].type = "mesh"
                                     /\ origin[i] = Children(1)[i]
                  /\ components[k + 1].id = k + 1
                  /\ components[k + 1].type = "assembly"
                  /\ [j \in 1..Len(components[k + 1].subComponents) |->
                         components[k + 1].subComponents[j].objectId] = [j \in 1..k |-> j]

\* C5 witness: a composed Group of two child meshes
C5_Witness ==
    /\ Composed
    /\ scene.type[1] = "Group"
    /\ scene.n = 3
    /\ scene.type[2] = "Mesh" /\ scene.type[3] = "Mesh"
    /\ scene.parent = <<0, 1, 1>>
    /\ Len(buildItems) = 1
    /\ buildItems[1].objectId = 3

\* C6: every BuildItem references a component of the table, in every state
\* from its creation on, and so does every lookup below it; no lookup of the
\* layout step or of the emitters fails.
C6_BuildItemsResolve ==
    /\ \A i \in 1..Len(buildItems) :
           /\ FindComponent(components, buildItems[i].objectId) # <<>>
           /\ Resolvable(components, buildItems[i].objectId, Len(components) + 1)
    /\ pc # "TypeError: find"

\* C6 witness: after the emitters ran, a BuildItem references an assembly
\* whose lookups reach a mesh two levels down
C6_Witness ==
    /\ pc = "done"
    /\ \E i \in 1..Len(buildItems) :
           LET c == components[buildItems[i].objectId]
           IN  \E j \in 1..Len(c.subComponents) :
                   components[c.subComponents[j].objectId].type = "assembly"

\* the mesh components that carry a material
WithMaterial == {k \in 1..Len(components) : components[k].material # <<>>}

\* the colour the material of the mesh behind component k resolves to
MeshColour(k) == ResolveColor(scene.material[origin[k]])

\* C7: two meshes whose resolved colours are equal reference the same
\* Material entry, hence the same extruder; two meshes whose resolved colours
\* differ reference different entries; the material list never holds two
\* entries with the same RGB.
C7_MaterialsDeduplicated ==
    /\ \A a, b \in WithMaterial :
           /\ MeshColour(a) = MeshColour(b) =>
                  /\ components[a].material = components[b].material
                  /\ components[a].material[1].extruder = components[b].material[1].extruder
           /\ MeshColour(a) # MeshColour(b) =>
                  /\ components[a].material[1].id # components[b].material[1].id
                  /\ components[a].material[1].extruder # components[b].material[1].extruder
    /\ \A a \in WithMaterial :
           /\ components[a].material[1].id \in 1..Len(materials)
           /\ materials[components[a].material[1].id] = components[a].material[1]
           /\ components[a].material[1].color = MeshColour(a)
    /\ \A i, j \in 1..Len(materials) : i # j => materials[i].color # materials[j].color

\* C7 witness: three meshes, two of one colour at different depths sharing
\* an entry and a third of a colour that prints as the same hex string in
\* another entry
C7_Witness ==
    /\ Composed
    /\ \E a, b, c \in WithMaterial :
           /\ a # b
           /\ MeshColour(a) = MeshColour(b)
           /\ scene.parent[origin[a]] # scene.parent[origin[b]]
           /\ components[a].material = components[b].material
           /\ MeshColour(c) # MeshColour(a)
           /\ HexString(MeshColour(c)) = HexString(MeshColour(a))
           /\ components[c].material # components[a].material

\* C8: with M materials filament_colour has max(2, M) entries, at least 2;
\* entry k <= M is the colour of the material with id k, the others are
\* white; filament_settings_id, filament_diameter and filament_is_support
\* have the same length.
C8_FilamentColours ==
    \A doc \in Range(projectSettingsConfig) :
        LET M == Len(materials)
            n == Len(doc.filament_colour)
        IN  /\ n >= 2
            /\ n = Max2(2, M)
            /\ \A k \in 1..M : /\ materials[k].id = k
                               /\ doc.filament_colour[k] = HexString(materials[k].color)
            /\ \A k \in (M + 1)..n : doc.filament_colour[k] = <<255, 255, 255>>
            /\ Len(doc.filament_settings_id) = n
            /\ Len(doc.filament_diameter) = n
            /\ Len(doc.filament_is_support) = n

\* C8 witness: the settings of a scene whose only meshes have no material
C8_Witness ==
    /\ projectSettingsConfig # <<>>
    /\ materials = <<>>
    /\ components # <<>>
    /\ Len(projectSettingsConfig[1].filament_colour) = 2

\* ---- the layout, read from the tables
\* the points of every build item under its transform with `sh` added to the
\* translation
PlacedPoints(sh) ==
    Flatten([i \in 1..Len(buildItems) |->
        LET e == buildItems[i].transformMatrix
        IN  ItemVerticesWorld(components, buildItems[i].objectId,
                [e EXCEPT ![13] = @ + sh.x, ![14] = @ + sh.y, ![15] = @ + sh.z])])

Lowest(pts, k) == CHOOSE m \in {pts[j][k] : j \in 1..Len(pts)} : \A j \in 1..Len(pts) : m <= pts[j][k]
Highest(pts, k) == CHOOSE m \in {pts[j][k] : j \in 1..Len(pts)} : \A j \in 1..Len(pts) : m >= pts[j][k]

BedWidthTicks ==
    TicksPerMm * (IF "printableWidth" \in DOMAIN scene.config
                  THEN scene.config.printableWidth ELSE printableWidth)
BedDepthTicks ==
    TicksPerMm * (IF "printableDepth" \in DOMAIN scene.config
                  THEN scene.config.printableDepth ELSE printableDepth)

Layouted == pc \in {"emit", "zip", "done", "TypeError: toFixed"}

\* C9: the shift is (bedWidth/2 - centreX, bedDepth/2 - centreY, -minZ) of the
\* bounding box of the points of all build items under their transforms; with
\* the shift added to every BuildItem the box is centred on the bed in x and
\* y and its lowest z is 0; without any point the shift is (bedWidth/2,
\* bedDepth/2, 0).  (Twice the centre is compared, to stay in integers.)
C9_CenteringTranslation ==
    Layouted =>
        LET before == PlacedPoints([x |-> 0, y |-> 0, z |-> 0])
            after == PlacedPoints(shift)
        IN  IF before = <<>>
            THEN shift = [x |-> BedWidthTicks \div 2, y |-> BedDepthTicks \div 2, z |-> 0]
            ELSE /\ 2 * shift.x = BedWidthTicks - (Lowest(before, 1) + Highest(before, 1))
                 /\ 2 * shift.y = BedDepthTicks - (Lowest(before, 2) + Highest(before, 2))
                 /\ shift.z = 0 - Lowest(before, 3)
                 /\ Lowest(after, 1) + Highest(after, 1) = BedWidthTicks
                 /\ Lowest(after, 2) + Highest(after, 2) = BedDepthTicks
                 /\ Lowest(after, 3) = 0

\* C9 witness: two posed build items whose lowest point is above the bed, so
\* the shift moves it down
C9_Witness ==
    /\ pc = "done"
    /\ Len(buildItems) >= 2
    /\ shift.z < 0
    /\ \E i \in 1..Len(buildItems) : E(buildItems[i].transformMatrix, 0) = 0

\* ---- the placement of the mesh leaves, read from the tables
\* the mesh leaves below component c, each with the transform from its own
\* space that the chain of relative transforms gives, m being that of c
RECURSIVE LeafTransforms(_, _)
LeafTransforms(c, m) ==
    IF c.type = "mesh" THEN {[id |-> c.id, transform |-> m]}
    ELSE UNION { LeafTransforms(components[c.subComponents[j].objectId],
                                MultiplyMatrices(m, c.subComponents[j].transform))
                 : j \in 1..Len(c.subComponents) }

\* the world transform of node i in the input scene: the poses of the node
\* and of all its ancestors, below the world transform of the root's parent
RECURSIVE SceneWorld(_)
SceneWorld(i) ==
    MultiplyMatrices(IF scene.parent[i] = 0 THEN scene.parentWorld
                     ELSE SceneWorld(scene.parent[i]),
                     scene.pose[i])

\* C10 as stated: for every BuildItem and every mesh leaf below it, the item
\* transform (the centering translation not added) composed with the chain
\* of relative transforms down to the leaf is the world transform of the leaf
\* mesh in the input scene, also below a posed Scene or posed ancestors.
C10_Original ==
    Composed =>
        \A i \in 1..Len(buildItems) :
            \A leaf \in LeafTransforms(components[buildItems[i].objectId],
                                       buildItems[i].transformMatrix) :
                leaf.transform = SceneWorld(origin[leaf.id])

\* what holds of the code: the same, when everything above the top-level
\* nodes is at the identity
C10_BelowIdentity ==
    (Composed /\ scene.parentWorld = Identity
       /\ (scene.type[1] = "Scene" => scene.pose[1] = Identity))
    => \A i \in 1..Len(buildItems) :
           \A leaf \in LeafTransforms(components[buildItems[i].objectId],
                                      buildItems[i].transformMatrix) :
               leaf.transform = SceneWorld(origin[leaf.id])

\* ---- emission, read from the documents
\* the nine linear entries of a stored matrix as they are printed
PrintedLinear(e) ==
    [k \in 1..9 |-> ToFixedLinear(E(e, <<0, 1, 2, 4, 5, 6, 8, 9, 10>>[k]))]

\* the first nine and the last three numbers of an emitted transform
LinearOf(t) == SubSeq(t, 1, 9)
TranslationOf(t) == SubSeq(t, 10, 12)

\* C11: the step that emits the main document leaves the components (their
\* vertices, triangles and relative transforms), the stored BuildItem
\* matrices and the shift as they were; in the document every item carries
\* its stored linear entries and its stored translation plus the one shift,
\* every sub-component carries its stored relative transform with nothing
\* added, and every vertex its stored coordinates.
C11_ShiftOnlyAtEmission ==
    [][ (pc = "emit" /\ mainModelXml' # <<>>) =>
          /\ components' = components
          /\ buildItems' = buildItems
          /\ shift' = shift
          /\ LET doc == mainModelXml'[1]
             IN  /\ Len(doc.build) = Len(buildItems)
                 /\ \A k \in 1..Len(buildItems) :
                        LET e == buildItems[k].transformMatrix
                            t == doc.build[k].transform
                        IN  /\ LinearOf(t) = PrintedLinear(e)
                            /\ TranslationOf(t) = << ToFixed(E(e, 12) + shift.x),
                                                     ToFixed(E(e, 13) + shift.y),
                                                     ToFixed(E(e, 14) + shift.z) >>
                 /\ Len(doc.resources) = Len(components)
                 /\ \A k \in 1..Len(components) :
                        LET c == components[k]
                            o == doc.resources[k]
                        IN  /\ Len(o.components) = Len(c.subComponents)
                            /\ \A j \in 1..Len(c.subComponents) :
                                   LET e == c.subComponents[j].transform
                                   IN  /\ LinearOf(o.components[j].transform) = PrintedLinear(e)
                                       /\ TranslationOf(o.components[j].transform)
                                          = <<ToFixed(E(e, 12)), ToFixed(E(e, 13)), ToFixed(E(e, 14))>>
                            /\ c.type = "mesh" =>
                                   /\ o.triangles = c.triangles
                                   /\ o.vertices = [j \in 1..Len(c.vertices) |->
                                          << ToFixed(c.vertices[j][1]), ToFixed(c.vertices[j][2]),
                                             ToFixed(c.vertices[j][3]) >>]
      ]_vars

\* C11 witness: a document was emitted for two build items, one of them an
\* assembly, with a shift that is not zero in x and y
C11_Witness ==
    /\ pc = "done"
    /\ mainModelXml # <<>>
    /\ Len(buildItems) >= 2
    /\ shift.x # 0
    /\ shift.y # 0
    /\ \E k \in 1..Len(buildItems) : components[buildItems[k].objectId].type = "assembly"
    /\ mainModelXml[1].build[2].transform[10]
         = ToFixed(E(buildItems[2].transformMatrix, 12) + shift.x)

\* ---- mesh geometry, read from the buffers alone
MeshComponents == {k \in 1..Len(components) : components[k].type = "mesh"}

\* the number of triangles the loop over the buffer of geometry g starts
TriangleCount(g) == (LoopCount(g) + 2) \div 3

\* what the buffers of g give for corner j (1-based) of the triangle list
SourceCorners(g) == [j \in 1..(3 * TriangleCount(g)) |-> PositionAt(g, Corner(g, j - 1))]

\* a sequence without its repetitions, every element at its first place
RECURSIVE FirstUses(_)
FirstUses(cs) ==
    IF cs = <<>> THEN <<>>
    ELSE LET before == FirstUses(SubSeq(cs, 1, Len(cs) - 1))
         IN  IF cs[Len(cs)] \in Range(before) THEN before ELSE Append(before, cs[Len(cs)])

\* the 0-based place of p in vs
PlaceIn(vs, p) == (CHOOSE k \in 1..Len(vs) : vs[k] = p) - 1

\* the vertex and triangle lists as a function of the geometry buffers only
GeometryOnly(g) ==
    LET cs == SourceCorners(g)
        vs == FirstUses(cs)
    IN  [vertices |-> vs,
         triangles |-> [t \in 1..TriangleCount(g) |->
                           [v1 |-> PlaceIn(vs, cs[3 * t - 2]),
                            v2 |-> PlaceIn(vs, cs[3 * t - 1]),
                            v3 |-> PlaceIn(vs, cs[3 * t])]]]

\* C12: the vertices and triangles of every mesh component are a function of
\* the geometry buffers of its mesh alone, and the mesh behind component k is
\* fixed by the shape of the tree; no node matrix, pose or ancestor enters.
\* Two scenes that differ only in transforms therefore get the same lists.
C12_GeometryIndependentOfTransforms ==
    LET expected == ExpectedOrder
    IN  \A k \in MeshComponents :
            /\ origin[k] = expected[k]
            /\ components[k].vertices = GeometryOnly(scene.geometry[origin[k]]).vertices
            /\ components[k].triangles = GeometryOnly(scene.geometry[origin[k]]).triangles

\* C12 witness: an export finished with a mesh that is posed below a posed
\* parent, all world matrices away from the identity, its stored vertices
\* the positions of the buffer
C12_Witness ==
    /\ pc = "done"
    /\ \E k \in MeshComponents :
           /\ scene.parent[origin[k]] # 0
           /\ scene.pose[origin[k]] # Identity
           /\ scene.pose[scene.parent[origin[k]]] # Identity
           /\ matrixWorld[origin[k]] # Identity
           /\ components[k].vertices = scene.geometry[origin[k]].position
           /\ components[k].vertices # <<>>
           /\ \E j \in 1..Len(buildItems) :
                  buildItems[j].transformMatrix # Identity

\* the first corner (1-based) of the source that has position p
FirstCorner(cs, p) == CHOOSE j \in 1..Len(cs) : cs[j] = p /\ \A i \in 1..(j - 1) : cs[i] # p

C14_PackageEntriesInOrder ==
    /\ zip # <<>> =>
           /\ zip = << "_rels/.rels", "3D/3dmodel.model", "Metadata/model_settings.config",
                       "Metadata/project_settings.config", "[Content_Types].xml" >>
           /\ zip[1] # "[Content_Types].xml"
           /\ zip[Len(zip)] = "[Content_Types].xml"
           /\ \A i, j \in 1..Len(zip) : i # j => zip[i] # zip[j]
    /\ pc = "done" => (zip # <<>> /\ blob # <<>>)
    /\ blob # <<>> => blob[1].files = zip

\* C14 witness: a finished export of a scene with a caller configuration
C14_Witness ==
    /\ pc = "done"
    /\ scene.config # NoConfig
    /\ Len(zip) = 5
    /\ zip[5] = "[Content_Types].xml"
    /\ blob[1].files[1] = "_rels/.rels"

\* C15: the second export of a scene with the same configuration ends with
\* the component ids, vertex lists, triangle lists, materials, relative
\* transforms, BuildItems and shift of the first, and with equal documents
\* and archive entries (UUIDs and the creation date are not part of them);
\* the matrices the first export left on the nodes change nothing.
C15_ReexportDeterministic ==
    (first # <<>> /\ pc \in {"done", "TypeError: toFixed", "TypeError: find"}) =>
        /\ components = first[1].components
        /\ materials = first[1].materials
        /\ buildItems = first[1].buildItems
        /\ shift = first[1].shift
        /\ pc = "done"
        /\ mainModelXml = first[1].mainModelXml
        /\ modelSettingsXml = first[1].modelSettingsXml
        /\ projectSettingsConfig = first[1].projectSettingsConfig
        /\ zip = first[1].zip
        /\ blob = first[1].blob

\* C15 witness: the second export ended, of a posed scene whose matrices
\* were stale (still the identity) when the first export began and are not
\* any more, with an assembly and a material
C15_Witness ==
    /\ first # <<>>
    /\ pc = "done"
    /\ \E i \in 1..scene.n : scene.pose[i] # Identity /\ matrixWorld[i] # Identity
    /\ \E k \in 1..Len(components) :
           /\ components[k].type = "assembly"
           /\ components[k].subComponents[1].transform # Identity
    /\ materials # <<>>
    /\ first[1].components = components

\* ---- the 12-number encoding
\* every emitted transform with the stored matrix it was printed from and
\* the translation added at emission
EmittedTransforms ==
    IF mainModelXml = <<>> THEN {}
    ELSE LET doc == mainModelXml[1]
         IN  { [printed |-> doc.build[k].transform,
                stored |-> buildItems[k].transformMatrix,
                added |-> <<shift.x, shift.y, shift.z>>] : k \in 1..Len(buildItems) }
             \cup UNION { { [printed |-> doc.resources[k].components[j].transform,
                             stored |-> components[k].subComponents[j].transform,
                             added |-> <<0, 0, 0>>]
                            : j \in 1..Len(components[k].subComponents) }
                          : k \in 1..Len(components) }

\* the rows of the matrix a Matrix4 stands for (a point is a column, the
\* translation the last column): row r is elements r, r+4, r+8, r+12
RowOfStored(e, r) == <<E(e, r), E(e, r + 4), E(e, r + 8), E(e, r + 12)>>

ProbePoints ==
    { <<0, 0, 0>>, <<10 ^ FractionDigits, 0, 0>>, <<0, 10 ^ FractionDigits, 0>>,
      <<0, 0, 10 ^ FractionDigits>>, <<3, -5, 7>> }

\* a printed transform applied to point p the 3MF way: the point is a row,
\* the 12 numbers are the rows of a 4x3 matrix, the last row the translation;
\* the printed linear entries are whole numbers with FractionDigits zeros
Apply3MF(t, p) ==
    [c \in 1..3 |-> p[1] * (t[c] \div 10 ^ FractionDigits)
                    + p[2] * (t[3 + c] \div 10 ^ FractionDigits)
                    + p[3] * (t[6 + c] \div 10 ^ FractionDigits)
                    + t[9 + c]]

Abs(x) == IF x < 0 THEN 0 - x ELSE x

RECURSIVE LeafIds(_)
LeafIds(id) ==
    IF components[id].type = "mesh" THEN {id}
    ELSE UNION { LeafIds(components[id].subComponents[j].objectId)
                 : j \in 1..Len(components[id].subComponents) }

\* the places (object, part) of the document where component id is a part
PartPlaces(doc, id) ==
    { <<k, j>> \in (1..Len(doc.objects)) \X (1..Len(components)) :
          j <= Len(doc.objects[k].parts) /\ doc.objects[k].parts[j].id = id }

\* C17: the document has one plate and, per BuildItem and in build order,
\* one object, one model_instance with identify_id its 1-based position, and
\* one assemble_item; the parts of an object are the mesh leaves of the tree
\* of its component, one part each and no assembly among them; every mesh
\* component is a part at exactly one place of the document.
C17_ModelSettingsParts ==
    \A doc \in Range(modelSettingsXml) :
        /\ Len(doc.plate) = 1
        /\ Len(doc.objects) = Len(buildItems)
        /\ Len(doc.instances) = Len(buildItems)
        /\ Len(doc.assemble) = Len(buildItems)
        /\ \A k \in 1..Len(buildItems) :
               /\ doc.objects[k].id = buildItems[k].objectId
               /\ doc.instances[k].object_id = buildItems[k].objectId
               /\ doc.instances[k].identify_id = k
               /\ doc.assemble[k].object_id = buildItems[k].objectId
               /\ {doc.objects[k].parts[j].id : j \in 1..Len(doc.objects[k].parts)}
                    = LeafIds(buildItems[k].objectId)
               /\ Len(doc.objects[k].parts) = Cardinality(LeafIds(buildItems[k].objectId))
               /\ \A j \in 1..Len(doc.objects[k].parts) :
                      components[doc.objects[k].parts[j].id].type = "mesh"
        /\ \A id \in 1..Len(components) :
               Cardinality(PartPlaces(doc, id))
                 = IF components[id].type = "mesh" THEN 1 ELSE 0

\* C17 witness: a document for two build items, one of them an assembly
\* with two parts, the other a mesh
C17_Witness ==
    /\ pc = "done"
    /\ Len(buildItems) = 2
    /\ \E k \in 1..2 :
           /\ components[buildItems[k].objectId].type = "assembly"
           /\ Len(modelSettingsXml[1].objects[k].parts) = 2
    /\ \E k \in 1..2 :
           /\ components[buildItems[k].objectId].type = "mesh"
           /\ Len(modelSettingsXml[1].objects[k].parts) = 1
    /\ modelSettingsXml[1].instances[2].identify_id = 2

\* ---- the effective configuration
\* field f of the effective configuration as the claim has it: the caller's
\* value when the caller supplies the field, else the default
MergedField(f) ==
    IF f \in DOMAIN scene.config THEN scene.config[f] ELSE defaultPrintConfig[f]

\* the metadata map as the claim has it: the caller's entries over the
\* default entries
MergedMetadata ==
    LET given == IF "metadata" \in DOMAIN scene.config THEN scene.config.metadata ELSE <<>>
        default == defaultPrintConfig.metadata
    IN  [k \in DOMAIN default \cup DOMAIN given |->
            IF k \in DOMAIN given THEN given[k] ELSE default[k]]

\* C18 as stated: every field the caller supplies overrides the default,
\* every other field keeps it, the metadata map and its default entries
\* included; the documents are written from that configuration, and the
\* archive is generated with DEFLATE unless the caller selects 'none', then
\* with STORE.
C18_Original ==
    pc = "done" =>
        /\ \A f \in DOMAIN defaultPrintConfig \ {"metadata"} : printConfig[f] = MergedField(f)
        /\ printConfig.metadata = MergedMetadata
        /\ mainModelXml[1].metadata = MergedMetadata
        /\ projectSettingsConfig[1].printable_height = MergedField("printableHeight")
        /\ \A k \in 1..Len(projectSettingsConfig[1].filament_settings_id) :
               projectSettingsConfig[1].filament_settings_id[k] = MergedField("filament")
        /\ blob[1].compression
             = IF MergedField("compression") = "none" THEN "STORE" ELSE "DEFLATE"

\* what holds of the code: the same for every top-level field, the metadata
\* map being one such field, replaced as a whole
C18_TopLevelFields ==
    pc = "done" =>
        /\ \A f \in DOMAIN defaultPrintConfig : printConfig[f] = MergedField(f)
        /\ mainModelXml[1].metadata = MergedField("metadata")
        /\ projectSettingsConfig[1].printable_height = MergedField("printableHeight")
        /\ \A k \in 1..Len(projectSettingsConfig[1].filament_settings_id) :
               projectSettingsConfig[1].filament_settings_id[k] = MergedField("filament")
        /\ blob[1].compression
             = IF MergedField("compression") = "none" THEN "STORE" ELSE "DEFLATE"
        /\ blob[1].compression \in {"STORE", "DEFLATE"}

\* ------------------------------------------------------------------- C19
\* the event is a call of toggleSelection: a click on a list item, a click on
\* a mesh, or a click on an input area with a modifier key held
TogglesSelection(e) ==
    \/ e.handler \in {"selectAndFocus", "handleMeshClick"}
    \/ e.handler = "handleInputAreaClick" /\ (e.ctrlKey \/ e.metaKey \/ e.shiftKey)

\* the placeholder is not shown and no export is running
SelectionEnabled == ~isDefaultSvg /\ ~isExporting

\* C19: with the placeholder not shown and no export running, a plain click
\* on item i makes the selection exactly {i}; a Ctrl/Cmd + click on item i
\* flips the membership of i and leaves the membership of every other item
\* as it was; in both cases lastSelectedIndex becomes i.
C19_SelectionModes ==
    [][LET e == lastEvent'
       IN  (TogglesSelection(e) /\ SelectionEnabled /\ ~e.shiftKey) =>
               /\ lastSelectedIndex' = <<e.index>>
               /\ IF e.ctrlKey \/ e.metaKey
                  THEN /\ (e.index \in selectedShapeIndices') = (e.index \notin selectedShapeIndices)
                       /\ selectedShapeIndices' \ {e.index} = selectedShapeIndices \ {e.index}
                  ELSE selectedShapeIndices' = {e.index}]_vars

\* a Ctrl/Cmd + click has just removed its item from a selection of several
C19_Witness ==
    /\ lastEvent.handler = "selectAndFocus"
    /\ lastEvent.ctrlKey \/ lastEvent.metaKey
    /\ ~lastEvent.shiftKey
    /\ SelectionEnabled
    /\ lastEvent.index \notin selectedShapeIndices
    /\ Cardinality(selectedShapeIndices) >= 2
    /\ lastSelectedIndex = <<lastEvent.index>>

BatchEditOf(prop) ==
    /\ lastEvent.handler = (IF prop = "startZ" THEN "handleStartZChange" ELSE "handleDepthChange")
    /\ ~lastEvent.threw
    /\ shouldBatchEdit(lastEvent.index)

Unclamped(prop, v) ==
    IF prop = "startZ" THEN StartZMin < v /\ v < StartZMax ELSE DepthMin < v /\ v < DepthMax

ReachedPaths ==
    hasDomParser /\ svgMarkup.throwing # "parseFromString" /\ svgMarkup.wellFormed

\* getFixedPathDataString threw on one of the paths
PathThrew == ReachedPaths /\ \E k \in 1..Len(svgMarkup.paths) : svgMarkup.paths[k] = "bad"

\* a DOM call threw
DomThrew ==
    \/ hasDomParser /\ svgMarkup.throwing = "parseFromString"
    \/ ReachedPaths /\ modified /\ hasXmlSerializer /\ svgMarkup.throwing = "serializeToString"

\* C23 as stated: normalizePathDirections returns exactly the string it was
\* given whenever the markup cannot be parsed, no DOM parser exists, any step
\* throws, or no path was changed.
C23_Original ==
    at = "done" =>
        ((~hasDomParser \/ ~svgMarkup.wellFormed \/ DomThrew \/ PathThrew \/ ~modified)
            => returned = svgMarkup)

\* the paths of the document with every rewound path replaced
Rewound(paths) ==
    [k \in 1..Len(paths) |-> IF paths[k] = "cw" THEN getFixedPathDataString("cw") ELSE paths[k]]

\* C23 amended: normalizePathDirections never throws, and it returns exactly
\* the string it was given when no DOM parser exists, the markup cannot be
\* parsed, a DOM call throws, no path was changed, or no serializer exists; a
\* throw while one path is normalised leaves that path as it was and does not
\* stop the others, so with another path changed the result is the
\* serialised document with the changed paths.
C23_ReturnsInputUnlessAPathChanged ==
    /\ at \in {"idle", "call", "parse", "paths", "catch", "done"}
    /\ at = "done" =>
        IF \/ ~hasDomParser
           \/ ~svgMarkup.wellFormed
           \/ DomThrew
           \/ ~modified
           \/ ~hasXmlSerializer
        THEN returned = svgMarkup
        ELSE /\ returned = serializeToString(Rewound(svgMarkup.paths))
             /\ returned # svgMarkup
             /\ \E k \in 1..Len(svgMarkup.paths) : svgMarkup.paths[k] = "cw"

\* the call has returned a serialised document in which one path is rewound
\* and the path on which getFixedPathDataString threw is as it was
C23_Witness ==
    /\ at = "done"
    /\ PathThrew
    /\ returned = serializeToString(<<"cw rewound", "bad">>)

\* ------------------------------------------------------------------- C24
\* C24: every component is a mesh or an assembly; an assembly has at least
\* one sub-component and no vertices, triangles or material; a mesh has no
\* sub-components.  A group without a mesh below it and a node of an
\* unsupported type produce no component, consume no id (the ids stay
\* 1..N over the producing nodes), give no BuildItem, and raise no error: the
\* only error position the export reaches is the toFixed of a vertex a mesh
\* read outside its buffer.
C24_ComponentTypesExclusive ==
    /\ \A k \in 1..Len(components) :
        LET c == components[k]
        IN  /\ c.type \in {"mesh", "assembly"}
            /\ c.id = k
            /\ c.type = "assembly" =>
                   /\ Len(c.subComponents) >= 1
                   /\ c.vertices = <<>>
                   /\ c.triangles = <<>>
                   /\ c.material = <<>>
            /\ c.type = "mesh" => c.subComponents = <<>>
            /\ Yields(origin[k])
            /\ (c.type = "mesh") = (scene.type[origin[k]] = "Mesh")
    /\ \A k, j \in 1..Len(origin) : origin[k] = origin[j] => k = j
    /\ \A b \in 1..Len(buildItems) : Yields(origin[buildItems[b].objectId])
    /\ pc # "TypeError: find"
    /\ pc = "TypeError: toFixed" => ToFixedThrows(components)
    /\ Composed => Len(components) = Cardinality({i \in 1..scene.n : i \in Range(ExpectedOrder)})

\* the export of a group that holds a mesh, a group without a mesh and an
\* empty group below that one is done: one mesh, one assembly, one build item
C24_Witness ==
    /\ pc = "done"
    /\ \E i, j \in 2..scene.n :
        /\ scene.type[i] \in GroupTypes /\ ~Yields(i)
        /\ scene.parent[j] = i
    /\ \E k \in 1..Len(components) : components[k].type = "assembly"
    /\ Len(components) = 2
    /\ Len(buildItems) = 1

\* ------------------------------------------------------------------- C25
\* C25 as stated: every triangle of a mesh is built from three entries 3k,
\* 3k+1, 3k+2 that all lie inside the buffer the loop runs over (the position
\* buffer without an index, the index buffer with one), whatever the length
\* of that buffer, and no error is raised.
C25_Original ==
    /\ \A k \in MeshComponents :
        LET g == scene.geometry[origin[k]]
        IN  /\ Len(components[k].triangles) = TriangleCount(g)
            /\ \A t \in 0..(TriangleCount(g) - 1) : 3 * t + 2 < LoopCount(g)
    /\ pc # "TypeError: toFixed"

\* ------------------------------------------------------------------- C26
\* the Mesh nodes of the object handed to the export
MeshNodes == {i \in 1..scene.n : scene.type[i] = "Mesh"}

\* C26 as stated: once the walk is over there are as many mesh components as
\* Mesh nodes below the export root, one per Mesh node whatever its parent.
C26_Original ==
    Composed =>
        /\ Cardinality(MeshComponents) = Cardinality(MeshNodes)
        /\ {origin[k] : k \in MeshComponents} = MeshNodes

\* ------------------------------------------------------------------- C27
\* the parts of the per-object metadata document
SettingsParts ==
    UNION { UNION { Range(ms.objects[k].parts) : k \in 1..Len(ms.objects) }
            : ms \in Range(modelSettingsXml) }

\* C27: every extruder number of a part of the per-object metadata document
\* lies between 1 and the number of filament_colour entries of the
\* project-settings document; a part with a material has that material's
\* extruder, and the filament_colour entry of that extruder is the colour of
\* the material; a part without a material has extruder 1.
C27_ExtrudersConsistent ==
    \A ps \in Range(projectSettingsConfig) : \A part \in SettingsParts :
        LET c == components[part.id]
            n == Len(ps.filament_colour)
        IN  /\ 1 <= part.extruder /\ part.extruder <= n
            /\ IF c.material # <<>>
               THEN /\ part.extruder = c.material[1].extruder
                    /\ ps.filament_colour[part.extruder] = HexString(c.material[1].color)
               ELSE part.extruder = 1

\* the export is done with two parts on different extruders whose
\* filament_colour entries print the same
C27_Witness ==
    /\ pc = "done"
    /\ \E ps \in Range(projectSettingsConfig) : \E p, q \in SettingsParts :
        /\ p.extruder # q.extruder
        /\ ps.filament_colour[p.extruder] = ps.filament_colour[q.extruder]

\* ------------------------------------------------------------------- C28
\* C28 as stated: every index in selectedShapeIndices is an index of the
\* current svgShapes list.
C28_Original ==
    \A i \in selectedShapeIndices : 0 <= i /\ i < Len(svgShapes)

\* ------------------------------------------------------------------- C29
\* the handlers of the user events that touch the selection
SelectionHandlers ==
    {"selectAndFocus", "handleMeshClick", "handleInputAreaClick",
     "selectedShownShapeIndices.set", "clearSelection"}

\* C29 as stated: while isExporting or isDefaultSvg is true, a step of
\* toggleSelection (by a list or mesh click), handleInputAreaClick, the
\* renderer's selection setter or clearSelection leaves selectedShapeIndices
\* and lastSelectedIndex as they were.
C29_Original ==
    [][((isExporting \/ isDefaultSvg) /\ lastEvent'.handler \in SelectionHandlers)
           => UNCHANGED <<selectedShapeIndices, lastSelectedIndex>>]_vars

\* ------------------------------------------------------------------- C30
\* C30 as stated: while a user SVG is mounted, a step other than a close or
\* another mount by the user leaves svgShapes as they are and isDefaultSvg
\* false; in particular the answer of a default-logo fetch does.
C30_Original ==
    [][(isLoaded /\ lastEvent'.handler \notin {"handleClose", "mountSVG"})
           => (svgShapes' = svgShapes /\ isDefaultSvg' = FALSE)]_vars
====
